---------------------------- MODULE Spec2Model ----------------------------
(***************************************************************************)
(* A model of d3_svg_network: the Selection facade over an element tree,   *)
(* the data-binding side table, and the NetworkSVG renderer (position      *)
(* resolution, fit-to-view, layer construction, edge geometry, sorting).   *)
(*                                                                         *)
(* Python values are modelled as follows.                                  *)
(*   - An optional value is a sequence of length <= 1: None is <<>> and    *)
(*     a value v is <<v>>, so that "is None" never compares values of      *)
(*     different types.                                                    *)
(*   - An element is its index in the document's node table.               *)
(*   - A number is an exact value; IEEE rounding is outside the model.     *)
(***************************************************************************)
EXTENDS Integers, Sequences, FiniteSets, TLC

VARIABLES
    doc,        \* the lxml element tree: [tagOf, kids, attrOf, textOf]
    binding,    \* Selection._data_binding
    selection,  \* elements of the Selection the caller currently holds
    lastOp,     \* the operation that ran last
    outcome,    \* how it ended: "ok" or the exception's type
    calls,      \* the calls a function-valued argument received, in order
    graph,      \* the igraph.Graph handed to NetworkSVG
    args,       \* NetworkSVG's constructor arguments
    net,        \* the NetworkSVG object's fields
    exported,   \* the tree the last to_string() serialised, if any
    ordinal       \* an OrdinalScale: [domain, range, arg, ret]

vars == <<doc, binding, selection, lastOp, outcome, calls, graph, args, net, exported, ordinal>>

(***************************************************************************)
(* Bounds of the model.                                                    *)
(***************************************************************************)
MaxNodes == 4      \* elements a document of the Selection runs may hold
MaxSel   == 2      \* longest Selection the Selection runs build

None == <<>>
Some(v) == <<v>>

Range(s) == {s[i] : i \in 1..Len(s)}

RECURSIVE Flatten(_)
Flatten(ss) == IF ss = <<>> THEN <<>> ELSE Head(ss) \o Flatten(Tail(ss))

(***************************************************************************)
(* The element tree.                                                       *)
(***************************************************************************)
NoAttrs == [a \in {} |-> ""]

\* _normalize_attr_name: a Python-side name is its words, joined by "_";
\* every "_" becomes "-".
RECURSIVE JoinWith(_, _)
JoinWith(words, sep) ==
    IF Len(words) = 0 THEN ""
    ELSE IF Len(words) = 1 THEN words[1]
    ELSE words[1] \o sep \o JoinWith(Tail(words), sep)

normalize_attr_name(name) == JoinWith(name, "-")

SetAttr(attrs, k, v) ==
    [a \in (DOMAIN attrs) \cup {k} |-> IF a = k THEN v ELSE attrs[a]]

\* el.get(name): None when the attribute is absent
GetAttr(d, el, k) ==
    IF k \in DOMAIN d.attrOf[el] THEN Some(d.attrOf[el][k]) ELSE None

\* _el(tag, **attrs): a fresh element; attrs is a sequence of <<name, str(v)>>
RECURSIVE el_attrs(_, _)
el_attrs(kvs, acc) ==
    IF kvs = <<>> THEN acc
    ELSE el_attrs(Tail(kvs), SetAttr(acc, normalize_attr_name(Head(kvs)[1]), Head(kvs)[2]))

\* An append that makes the new element the parent's first child.
AppendChild_as_first(d, parent, tag, kvs) ==
    [tagOf  |-> Append(d.tagOf, tag),
     kids   |-> Append([d.kids EXCEPT ![parent] = <<Len(d.tagOf) + 1>> \o @], <<>>),
     attrOf |-> Append(d.attrOf, el_attrs(kvs, NoAttrs)),
     textOf |-> Append(d.textOf, None)]

\* etree.Element + parent.append(child): the new element is the last child
AppendChild(d, parent, tag, kvs) ==
    LET child == Len(d.tagOf) + 1 IN
    [tagOf  |-> Append(d.tagOf, tag),
     kids   |-> Append([d.kids EXCEPT ![parent] = Append(@, child)], <<>>),
     attrOf |-> Append(d.attrOf, el_attrs(kvs, NoAttrs)),
     textOf |-> Append(d.textOf, None)]

\* etree.Element + root.insert(0, child): the new element is the first child
InsertFirstChild(d, parent, tag, kvs) ==
    LET child == Len(d.tagOf) + 1 IN
    [tagOf  |-> Append(d.tagOf, tag),
     kids   |-> Append([d.kids EXCEPT ![parent] = <<child>> \o @], <<>>),
     attrOf |-> Append(d.attrOf, el_attrs(kvs, NoAttrs)),
     textOf |-> Append(d.textOf, None)]

NewDoc ==
    [tagOf |-> <<"svg">>, kids |-> << <<>> >>, attrOf |-> <<NoAttrs>>,
     textOf |-> <<None>>]

Root == 1

RECURSIVE DocOrder(_, _)
DocOrder(d, n) ==
    <<n>> \o Flatten([i \in 1..Len(d.kids[n]) |-> DocOrder(d, d.kids[n][i])])

\* _svg_css_selector(css)(el) for a bare type selector: the elements of that
\* tag among el and its descendants, in document order
SelectSeqTag(d, s, css) ==
    LET Keep(m) == d.tagOf[m] = css IN SelectSeq(s, Keep)

svg_css_selector(d, el, css) == SelectSeqTag(d, DocOrder(d, el), css)

(***************************************************************************)
(* Selection: data binding.                                                *)
(***************************************************************************)
\* Selection._get_data
get_data(b, el) == IF el \in DOMAIN b THEN b[el] ELSE None

\* Selection._set_data
set_data(b, el, value) ==
    [e \in (DOMAIN b) \cup {el} |-> IF e = el THEN value ELSE b[e]]

NoBinding == [e \in {} |-> None]

\* Selection.data: [status, binding]
RECURSIVE data_loop(_, _, _)
data_loop(b, els, items) ==
    IF els = <<>> \/ items = <<>> THEN b
    ELSE data_loop(set_data(b, Head(els), Head(items)), Tail(els), Tail(items))

\* A data() that binds the zipped prefix before it checks the lengths.
Selection_data_bind_first(b, els, items) ==
    IF Len(items) # Len(els)
    THEN [status |-> "ValueError", binding |-> data_loop(b, els, items)]
    ELSE [status |-> "ok", binding |-> data_loop(b, els, items)]

Selection_data(b, els, items) ==
    IF Len(items) # Len(els)
    THEN [status |-> "ValueError", binding |-> b]
    ELSE [status |-> "ok", binding |-> data_loop(b, els, items)]


(***************************************************************************)
(* Selection: tree operations.                                             *)
(***************************************************************************)
\* Selection.append: one new child under every element, in selection order
RECURSIVE Selection_append(_, _, _, _)
Selection_append(d, els, tag, kvs) ==
    IF els = <<>> THEN [doc |-> d, kids |-> <<>>]
    ELSE LET d1   == AppendChild(d, Head(els), tag, kvs)
             rest == Selection_append(d1, Tail(els), tag, kvs)
         IN [doc |-> rest.doc, kids |-> <<Len(d1.tagOf)>> \o rest.kids]

\* A value handed to attr(): absent (the read form), a literal, or a callable.
NoValue     == [kind |-> "none", lit |-> 0, fn |-> ""]
Literal(x)  == [kind |-> "lit", lit |-> x, fn |-> ""]
Callable(f) == [kind |-> "fn", lit |-> 0, fn |-> f]

\* The callables the runs pass: each reads one of its arguments.
\*   FnDatum: lambda d, i, el: d
\*   FnIndex: lambda d, i, el: i or None      (None at index 0)
Call(f, datum, idx, el, d) ==
    CASE f = "FnDatum" -> datum
      [] f = "FnIndex" -> IF idx = 0 THEN None ELSE Some(idx)

\* str(val)
str(x) == ToString(x)

\* An attr() loop without the "continue": a None result is written as "None".
RECURSIVE attr_loop_no_skip(_, _, _, _, _, _, _)
attr_loop_no_skip(d, b, els, attr_name, value, idx, log) ==
    IF idx >= Len(els) THEN [doc |-> d, calls |-> log]
    ELSE LET el   == els[idx + 1]
             val  == IF value.kind = "fn"
                     THEN Call(value.fn, get_data(b, el), idx, el, d)
                     ELSE Some(value.lit)
             log1 == IF value.kind = "fn"
                     THEN Append(log, <<get_data(b, el), idx, el>>)
                     ELSE log
             d1   == [d EXCEPT !.attrOf[el] =
                         SetAttr(@, attr_name, IF val = None THEN "None" ELSE str(val[1]))]
         IN attr_loop_no_skip(d1, b, els, attr_name, value, idx + 1, log1)

\* Selection.attr, write form: the loop from position idx (0-based) on
RECURSIVE attr_loop(_, _, _, _, _, _, _)
attr_loop(d, b, els, attr_name, value, idx, log) ==
    IF idx >= Len(els) THEN [doc |-> d, calls |-> log]
    ELSE LET el   == els[idx + 1]
             val  == IF value.kind = "fn"
                     THEN Call(value.fn, get_data(b, el), idx, el, d)
                     ELSE Some(value.lit)
             log1 == IF value.kind = "fn"
                     THEN Append(log, <<get_data(b, el), idx, el>>)
                     ELSE log
             d1   == IF val = None THEN d
                     ELSE [d EXCEPT !.attrOf[el] = SetAttr(@, attr_name, str(val[1]))]
         IN attr_loop(d1, b, els, attr_name, value, idx + 1, log1)

\* Selection.attr: [doc, calls, ret]; ret is the value read (read form) or
\* "self" (write form)
Selection_attr(d, b, els, name, value) ==
    LET attr_name == normalize_attr_name(name) IN
    IF value.kind = "none"
    THEN [doc |-> d, calls |-> <<>>,
          ret |-> IF els # <<>> THEN GetAttr(d, els[1], attr_name) ELSE None]
    ELSE LET r == attr_loop(d, b, els, attr_name, value, 0, <<>>)
         IN [doc |-> r.doc, calls |-> r.calls, ret |-> Some("self")]

\* Selection.select: the first match under each element
RECURSIVE Selection_select(_, _, _, _)
Selection_select(d, b, els, css) ==
    IF els = <<>> THEN [binding |-> b, found |-> <<>>]
    ELSE LET el      == Head(els)
             matches == svg_css_selector(d, el, css)
         IN IF matches = <<>> THEN Selection_select(d, b, Tail(els), css)
            ELSE LET match == matches[1]
                     b1    == set_data(b, match, get_data(b, el))
                     rest  == Selection_select(d, b1, Tail(els), css)
                 IN [binding |-> rest.binding, found |-> <<match>> \o rest.found]

RECURSIVE set_data_all(_, _, _)
set_data_all(b, matches, value) ==
    IF matches = <<>> THEN b
    ELSE set_data_all(set_data(b, Head(matches), value), Tail(matches), value)

\* A select_all() that returns the matches and propagates no datum.
RECURSIVE Selection_select_all_no_inherit(_, _, _, _)
Selection_select_all_no_inherit(d, b, els, css) ==
    IF els = <<>> THEN [binding |-> b, found |-> <<>>]
    ELSE LET rest == Selection_select_all_no_inherit(d, b, Tail(els), css)
         IN [binding |-> rest.binding,
             found |-> svg_css_selector(d, Head(els), css) \o rest.found]

\* Selection.select_all: every match under each element
RECURSIVE Selection_select_all(_, _, _, _)
Selection_select_all(d, b, els, css) ==
    IF els = <<>> THEN [binding |-> b, found |-> <<>>]
    ELSE LET el      == Head(els)
             matches == svg_css_selector(d, el, css)
         IN IF matches = <<>> THEN Selection_select_all(d, b, Tail(els), css)
            ELSE LET parent_data == get_data(b, el)
                     b1   == set_data_all(b, matches, parent_data)
                     rest == Selection_select_all(d, b1, Tail(els), css)
                 IN [binding |-> rest.binding, found |-> matches \o rest.found]

\* MiniD3SVG.select / MiniD3SVG.select_all: no datum is propagated
MiniD3SVG_select(d, css) ==
    LET found == svg_css_selector(d, Root, css)
    IN IF found = <<>> THEN <<>> ELSE <<found[1]>>
MiniD3SVG_select_all(d, css) == svg_css_selector(d, Root, css)

(***************************************************************************)
(* The Selection runs: a caller builds a document with append, binds data  *)
(* and queries it.                                                         *)
(***************************************************************************)
Tags      == {"g", "circle"}
AttrNames == {<<"stroke", "width">>}
DataItems == {None, Some(1)}
Values    == {Literal(2), Callable("FnDatum"), Callable("FnIndex")}

SeqsOf(S, n) == [1..n -> S]

Unused == <<>>

NetIdle == /\ graph = Unused /\ args = Unused /\ net = Unused

InitSel ==
    /\ doc = NewDoc
    /\ binding = NoBinding
    /\ selection = <<>>
    /\ lastOp = "MiniD3SVG"
    /\ exported = None
    /\ ordinal = Unused
    /\ outcome = "ok"
    /\ calls = <<>>
    /\ NetIdle

DocAppend(tag) ==
    /\ Len(doc.tagOf) < MaxNodes
    /\ doc' = AppendChild(doc, Root, tag, <<>>)
    /\ selection' = <<Len(doc'.tagOf)>>
    /\ lastOp' = "svg.append"
    /\ UNCHANGED <<exported, ordinal>>
    /\ outcome' = "ok"
    /\ calls' = <<>>
    /\ UNCHANGED <<binding, graph, args, net>>

DocSelect(css) ==
    /\ selection' = MiniD3SVG_select(doc, css)
    /\ lastOp' = "svg.select"
    /\ UNCHANGED <<exported, ordinal>>
    /\ outcome' = "ok"
    /\ calls' = <<>>
    /\ UNCHANGED <<doc, binding, graph, args, net>>

DocSelectAll(css) ==
    /\ Len(MiniD3SVG_select_all(doc, css)) <= MaxSel
    /\ selection' = MiniD3SVG_select_all(doc, css)
    /\ lastOp' = "svg.select_all"
    /\ UNCHANGED <<exported, ordinal>>
    /\ outcome' = "ok"
    /\ calls' = <<>>
    /\ UNCHANGED <<doc, binding, graph, args, net>>

SelAppend(tag) ==
    /\ selection # <<>>
    /\ Len(doc.tagOf) + Len(selection) <= MaxNodes
    /\ LET r == Selection_append(doc, selection, tag, <<>>)
       IN /\ doc' = r.doc
          /\ selection' = r.kids
    /\ lastOp' = "append"
    /\ UNCHANGED <<exported, ordinal>>
    /\ outcome' = "ok"
    /\ calls' = <<>>
    /\ UNCHANGED <<binding, graph, args, net>>

SelAttr(name, value) ==
    /\ LET r == Selection_attr(doc, binding, selection, name, value)
       IN /\ doc' = r.doc
          /\ calls' = r.calls
    /\ lastOp' = "attr"
    /\ UNCHANGED <<exported, ordinal>>
    /\ outcome' = "ok"
    /\ UNCHANGED <<binding, selection, graph, args, net>>

SelData(items) ==
    /\ LET r == Selection_data(binding, selection, items)
       IN /\ binding' = r.binding
          /\ outcome' = r.status
    /\ lastOp' = "data"
    /\ UNCHANGED <<exported, ordinal>>
    /\ calls' = <<>>
    /\ UNCHANGED <<doc, selection, graph, args, net>>

SelSelect(css) ==
    /\ LET r == Selection_select(doc, binding, selection, css)
       IN /\ binding' = r.binding
          /\ selection' = r.found
    /\ lastOp' = "select"
    /\ UNCHANGED <<exported, ordinal>>
    /\ outcome' = "ok"
    /\ calls' = <<>>
    /\ UNCHANGED <<doc, graph, args, net>>

SelSelectAll(css) ==
    /\ LET r == Selection_select_all(doc, binding, selection, css)
       IN /\ Len(r.found) <= MaxSel
          /\ binding' = r.binding
          /\ selection' = r.found
    /\ lastOp' = "select_all"
    /\ UNCHANGED <<exported, ordinal>>
    /\ outcome' = "ok"
    /\ calls' = <<>>
    /\ UNCHANGED <<doc, graph, args, net>>

\* The item lists the runs pass to data(): every list of the selection's
\* length, and lists one item longer and one item shorter.
DataCalls ==
    SeqsOf(DataItems, Len(selection))
       \cup SeqsOf({Some(1)}, Len(selection) + 1)
       \cup (IF selection = <<>> THEN {} ELSE SeqsOf({Some(1)}, Len(selection) - 1))

NextSel ==
    \/ \E tag \in Tags : DocAppend(tag)
    \/ \E css \in Tags : DocSelect(css)
    \/ \E css \in Tags : DocSelectAll(css)
    \/ \E tag \in Tags : SelAppend(tag)
    \/ \E items \in DataCalls : SelData(items)
    \/ \E css \in Tags : SelSelect(css)
    \/ \E css \in Tags : SelSelectAll(css)

SpecSel == InitSel /\ [][NextSel]_vars

(***************************************************************************)
(* The attribute runs: a caller appends circles to a document, wraps any   *)
(* of them in a Selection (in any order, repeats allowed), binds data and  *)
(* sets an attribute from a literal or a callable.                         *)
(***************************************************************************)
\* Selection(elements)
NewSelection(els) ==
    /\ selection' = els
    /\ lastOp' = "Selection"
    /\ UNCHANGED <<exported, ordinal>>
    /\ outcome' = "ok"
    /\ calls' = <<>>
    /\ UNCHANGED <<doc, binding, graph, args, net>>

NextAttr ==
    \/ DocAppend("circle")
    \/ \E n \in 1..MaxSel : \E els \in SeqsOf(2..Len(doc.tagOf), n) : NewSelection(els)
    \/ \E items \in SeqsOf({Some(1)}, Len(selection)) : SelData(items)
    \/ \E name \in AttrNames, value \in Values : SelAttr(name, value)

SpecAttr == InitSel /\ [][NextAttr]_vars

(***************************************************************************)
(* Claims about Selection.                                                 *)
(***************************************************************************)
Elements == 1..Len(doc.tagOf)

\* C1: data(items) raises a ValueError whenever the number of items differs
\* from the number of elements of the selection, and that call leaves the
\* bound datum of every element of the document as it was.
C1_DataArityError ==
    [][lastOp' = "data" =>
       \A items \in DataCalls :
          SelData(items) =>
             IF Len(items) # Len(selection)
             THEN /\ outcome' = "ValueError"
                  /\ binding' = binding
                  /\ \A el \in Elements : get_data(binding', el) = get_data(binding, el)
             ELSE outcome' = "ok"]_vars

\* a data() call has failed in a document that holds a bound element
C1_Witness ==
    /\ lastOp = "data"
    /\ outcome = "ValueError"
    /\ \E el \in Elements : get_data(binding, el) # None

\* The matches a query keeps under source position k of the selection:
\* all of them (select_all) or the first (select).
MatchesUnder(k, css, all) ==
    LET m == svg_css_selector(doc, selection[k], css)
    IN IF all \/ m = <<>> THEN m ELSE <<m[1]>>

AllMatches(css, all) ==
    Flatten([k \in 1..Len(selection) |-> MatchesUnder(k, css, all)])

IsQueryStep(css, all) == IF all THEN SelSelectAll(css) ELSE SelSelect(css)

\* C2, as claimed: after select / select_all, a node matched under a source
\* node has the bound datum of that source node, for every source node under
\* which it was matched.
C2_InheritsEverySource ==
    [][lastOp' \in {"select", "select_all"} =>
       \A css \in Tags, all \in BOOLEAN :
          IsQueryStep(css, all) =>
             \A k \in 1..Len(selection) :
                \A m \in Range(MatchesUnder(k, css, all)) :
                   get_data(binding', m) = get_data(binding', selection[k])]_vars

\* C2, amended: a returned node has the bound datum of the last source node,
\* in selection order, under which it was matched; select returns the first
\* match of each source node and select_all every match, in source order;
\* no other element's datum changes.
C2_InheritsLastSource ==
    [][lastOp' \in {"select", "select_all"} =>
       \A css \in Tags, all \in BOOLEAN :
          IsQueryStep(css, all) =>
             /\ selection' = AllMatches(css, all)
             /\ \A m \in Range(selection') :
                   LET under == {k \in 1..Len(selection) :
                                    m \in Range(MatchesUnder(k, css, all))}
                       last  == CHOOSE k \in under : \A j \in under : j <= k
                   IN get_data(binding', m) = get_data(binding', selection[last])
             /\ \A k \in 1..Len(selection) :
                   Len(MatchesUnder(k, css, all)) <= IF all THEN Len(doc.tagOf) ELSE 1
             /\ \A el \in Elements \ Range(selection') :
                   get_data(binding', el) = get_data(binding, el)]_vars

\* a query has returned a node it matched under two source nodes, with a datum
C2_Witness ==
    /\ lastOp \in {"select", "select_all"}
    /\ \E i, j \in 1..Len(selection) :
          /\ i < j
          /\ selection[i] = selection[j]
          /\ get_data(binding, selection[i]) # None

DecimalString(v) == <<"0", "1", "2", "3", "4", "5", "6", "7", "8", "9">>[v + 1]

\* C3: attr(name, fn) calls fn once per element of the selection, in order,
\* with (the element's bound datum, its index, the element); an element for
\* which every such call returns None keeps its attributes as they were, and
\* any other element gets the hyphenated attribute set to the string of the
\* value its last such call returned, nothing else changing; no error is
\* raised and the selection and the bindings are the same afterwards.
C3_AttrFunction ==
    [][lastOp' = "attr" =>
       \A name \in AttrNames, f \in {"FnDatum", "FnIndex"} :
          SelAttr(name, Callable(f)) =>
             LET Ret(i) == Call(f, get_data(binding, selection[i]), i - 1, selection[i], doc)
             IN /\ calls' = [i \in 1..Len(selection) |->
                               <<get_data(binding, selection[i]), i - 1, selection[i]>>]
                /\ \A el \in Elements :
                      LET hits == {i \in 1..Len(selection) :
                                      selection[i] = el /\ Ret(i) # None}
                          last == CHOOSE i \in hits : \A j \in hits : j <= i
                          old  == doc.attrOf[el]
                          new  == doc'.attrOf[el]
                      IN IF hits = {} THEN new = old
                         ELSE /\ DOMAIN new = (DOMAIN old) \cup {"stroke-width"}
                              /\ new["stroke-width"] = DecimalString(Ret(last)[1])
                              /\ \A a \in DOMAIN old : a # "stroke-width" => new[a] = old[a]
                /\ outcome' = "ok"
                /\ selection' = selection
                /\ binding' = binding
                /\ doc'.tagOf = doc.tagOf /\ doc'.kids = doc.kids
                /\ doc'.textOf = doc.textOf]_vars

\* a function-valued attr() has run over a selection in which one element,
\* whose call returned None, kept the value "2" and another got the value "1"
C3_Witness ==
    /\ lastOp = "attr"
    /\ \E i, j \in 1..Len(calls) :
          /\ calls[i][3] # calls[j][3]
          /\ GetAttr(doc, calls[i][3], "stroke-width") = Some("2")
          /\ GetAttr(doc, calls[j][3], "stroke-width") = Some("1")
          /\ \/ calls[i][1] = None /\ calls[j][1] = Some(1)
             \/ calls[i][2] = 0 /\ calls[j][2] = 1

(***************************************************************************)
(* Numbers.  A float is modelled by the exact value (a/eps + b + c*eps)/d  *)
(* with integers a, b, c and d > 0, where eps stands for the span floor    *)
(* 1e-9 of _fit_positions.  The order treats eps as smaller than every     *)
(* positive quantity the bounded inputs can form, which is the order of    *)
(* the real numbers while coordinates, sizes and margins stay within a few *)
(* thousand units.  Rounding is not modelled.                              *)
(***************************************************************************)
Abs(n) == IF n < 0 THEN -n ELSE n

RECURSIVE Gcd(_, _)
Gcd(m, n) == IF n = 0 THEN m ELSE Gcd(n, m % n)

QNorm(x) ==
    LET g == Gcd(Gcd(Gcd(Abs(x.a), Abs(x.b)), Abs(x.c)), x.d)
    IN [a |-> x.a \div g, b |-> x.b \div g, c |-> x.c \div g, d |-> x.d \div g]

Frac(n, d) == QNorm([a |-> 0, b |-> n, c |-> 0, d |-> d])
Q(n) == Frac(n, 1)
Eps == [a |-> 0, b |-> 0, c |-> 1, d |-> 1]

QAdd(x, y) ==
    QNorm([a |-> x.a * y.d + y.a * x.d, b |-> x.b * y.d + y.b * x.d,
           c |-> x.c * y.d + y.c * x.d, d |-> x.d * y.d])
QNeg(x) == [a |-> -x.a, b |-> -x.b, c |-> -x.c, d |-> x.d]
QSub(x, y) == QAdd(x, QNeg(y))

\* defined when no 1/eps^2 and no eps^2 term arises
QMul(x, y) ==
    QNorm([a |-> x.a * y.b + x.b * y.a,
           b |-> x.a * y.c + x.b * y.b + x.c * y.a,
           c |-> x.b * y.c + x.c * y.b,
           d |-> x.d * y.d])

\* 1/y for a rational y # 0, or for a positive multiple of eps
QInv(y) ==
    IF y.b # 0
    THEN QNorm([a |-> 0, b |-> IF y.b < 0 THEN -y.d ELSE y.d, c |-> 0, d |-> Abs(y.b)])
    ELSE QNorm([a |-> y.d, b |-> 0, c |-> 0, d |-> y.c])

QDiv(x, y) == QMul(x, QInv(y))

QLess(x, y) ==
    LET xa == x.a * y.d  ya == y.a * x.d
        xb == x.b * y.d  yb == y.b * x.d
        xc == x.c * y.d  yc == y.c * x.d
    IN \/ xa < ya
       \/ xa = ya /\ xb < yb
       \/ xa = ya /\ xb = yb /\ xc < yc

QLeq(x, y) == ~QLess(y, x)
QMax(x, y) == IF QLess(x, y) THEN y ELSE x
QMin(x, y) == IF QLess(y, x) THEN y ELSE x

RECURSIVE QMaxOf(_)
QMaxOf(xs) == IF Len(xs) = 1 THEN xs[1] ELSE QMax(xs[1], QMaxOf(Tail(xs)))
RECURSIVE QMinOf(_)
QMinOf(xs) == IF Len(xs) = 1 THEN xs[1] ELSE QMin(xs[1], QMinOf(Tail(xs)))

(***************************************************************************)
(* The graph.  An igraph.Graph is [vcount, directed, edges, vattr, eattr]: *)
(* edges is the sequence of <<source, target>> vertex indices (0-based),   *)
(* vattr / eattr map each attribute name the graph has to the sequence of  *)
(* its values, one per vertex / edge (None where unset).                   *)
(*                                                                         *)
(* A value supplied as a position is None or one of                        *)
(*    <<"seq", members>>   a list or tuple                                 *)
(*    <<"other", <<>>>>    anything else (a number, a string, an array)    *)
(* and a member is <<"num", n>>, <<"text", 0>> (a string float() rejects)  *)
(* or <<"none", 0>>.                                                       *)
(***************************************************************************)
Pair(x, y) == Some(<<"seq", <<<<"num", x>>, <<"num", y>>>>>>)

\* float(member): [status, val]
float(m) ==
    CASE m[1] = "num"  -> [status |-> "ok", val |-> Q(m[2])]
      [] m[1] = "text" -> [status |-> "ValueError", val |-> Q(0)]
      [] m[1] = "none" -> [status |-> "TypeError", val |-> Q(0)]

\* _to_float_tuple: [status, val]; val is None or a pair of numbers
to_float_tuple(value) ==
    IF value = None THEN [status |-> "ok", val |-> None]
    ELSE IF value[1][1] = "seq" /\ Len(value[1][2]) >= 2
    THEN LET f0 == float(value[1][2][1])
             f1 == float(value[1][2][2])
         IN IF f0.status # "ok" THEN [status |-> f0.status, val |-> None]
            ELSE IF f1.status # "ok" THEN [status |-> f1.status, val |-> None]
            ELSE [status |-> "ok", val |-> Some(<<f0.val, f1.val>>)]
    ELSE [status |-> "ValueError", val |-> None]

\* NetworkSVG._coerce_position: a ValueError is raised again with the vertex
\* index in its message; any other exception passes through as it is
coerce_position(value, idx) ==
    LET r == to_float_tuple(value)
    IN [status |-> r.status, val |-> r.val,
        index |-> IF r.status = "ValueError" THEN Some(idx) ELSE None]

\* [coerce_position(v, idx) for idx, v in enumerate(values)]: the list, or
\* the first exception
RECURSIVE coerce_all(_, _, _)
coerce_all(values, idx, acc) ==
    IF idx >= Len(values) THEN [status |-> "ok", val |-> acc, index |-> None]
    ELSE LET r == coerce_position(values[idx + 1], idx)
         IN IF r.status # "ok" THEN [status |-> r.status, val |-> <<>>, index |-> r.index]
            ELSE coerce_all(values, idx + 1, Append(acc, r.val))

\* next((name for name in names if name in attr_names), None)
RECURSIVE first_present(_, _)
first_present(names, attr_names) ==
    IF names = <<>> THEN None
    ELSE IF Head(names) \in attr_names THEN Some(Head(names))
    ELSE first_present(Tail(names), attr_names)

\* zip(xs, ys) as (x, y) tuples
xy_values(xs, ys) ==
    [i \in 1..Len(xs) |->
        Some(<<"seq", << IF xs[i] = None THEN <<"none", 0>> ELSE xs[i][1],
                         IF ys[i] = None THEN <<"none", 0>> ELSE ys[i][1] >>>>)]

\* NetworkSVG._positions_from_user
positions_from_user(g, provided) ==
    IF provided[1][1] = "callable"
    THEN coerce_all(provided[1][2], 0, <<>>)
    ELSE IF Len(provided[1][2]) # g.vcount
    THEN [status |-> "ValueError", val |-> <<>>, index |-> None]
    ELSE coerce_all(provided[1][2], 0, <<>>)

\* A resolution that looks at the vertex attributes before the argument.
resolve_positions_attr_first(g, provided) ==
    LET attr_names == DOMAIN g.vattr
        candidate  == first_present(<<"Position", "position", "positions">>, attr_names)
    IN IF candidate # None THEN coerce_all(g.vattr[candidate[1]], 0, <<>>)
       ELSE IF provided # None THEN positions_from_user(g, provided)
       ELSE [status |-> "ValueError", val |-> <<>>, index |-> None]

\* NetworkSVG._resolve_positions
resolve_positions(g, provided) ==
    IF provided # None THEN positions_from_user(g, provided)
    ELSE LET attr_names == DOMAIN g.vattr
             candidate  == first_present(<<"Position", "position", "positions">>, attr_names)
             x_attr     == first_present(<<"x", "X">>, attr_names)
             y_attr     == first_present(<<"y", "Y">>, attr_names)
         IN IF candidate # None THEN coerce_all(g.vattr[candidate[1]], 0, <<>>)
            ELSE IF x_attr # None /\ y_attr # None
            THEN coerce_all(xy_values(g.vattr[x_attr[1]], g.vattr[y_attr[1]]), 0, <<>>)
            ELSE [status |-> "ValueError", val |-> <<>>, index |-> None]

(***************************************************************************)
(* Attribute values.  A value of a vertex or edge attribute is None or     *)
(* Some(<<kind, payload>>):                                                *)
(*    <<"num", n>>        a number                                         *)
(*    <<"bool", 0 or 1>>  False or True                                    *)
(*    <<"text", 0>>       a string that is no number, flag or colour       *)
(*    <<"yes", 0>>        one of the strings "true", "1", "yes"            *)
(*    <<"str", s>>        the string s (a label)                           *)
(*    <<"empty", 0>>      the empty string                                 *)
(*    <<"hex", digits>>   the colour "#" followed by 3 or 6 hex digits     *)
(*    <<"word", 0>>       a colour that is no hex colour, such as "red"    *)
(***************************************************************************)
\* _attr_lookup(obj, candidates, default): obj is element i (0-based) of the
\* attribute table attrs
\* A lookup that finds no candidate name on the object.
attr_lookup_missing_key(attrs, i, candidates, default) == default

RECURSIVE attr_lookup(_, _, _, _)
attr_lookup(attrs, i, candidates, default) ==
    IF candidates = <<>> THEN default
    ELSE LET key == Head(candidates)
         IN IF key \notin DOMAIN attrs
            THEN attr_lookup(attrs, i, Tail(candidates), default)
            ELSE IF attrs[key][i + 1] # None THEN attrs[key][i + 1]
            ELSE attr_lookup(attrs, i, Tail(candidates), default)

\* _as_float(value, default): a number, or the default
as_float(value, default) ==
    IF value = None THEN default
    ELSE IF value[1][1] = "num" THEN Q(value[1][2])
    ELSE IF value[1][1] = "bool" THEN Q(value[1][2])
    ELSE default

\* _as_bool(value, default=False)
as_bool(value) ==
    IF value = None THEN FALSE
    ELSE CASE value[1][1] = "bool" -> value[1][2] = 1
           [] value[1][1] = "num"  -> value[1][2] # 0
           [] value[1][1] \in {"text", "str", "empty", "hex", "word"} -> FALSE
           [] value[1][1] = "yes"  -> TRUE

\* Python truth of an optional string or colour
Truthy(value) ==
    /\ value # None
    /\ value[1][1] # "empty"
    /\ ~(value[1][1] \in {"num", "bool"} /\ value[1][2] = 0)

\* _hex_components: None, or the three components
hex_components(color) ==
    IF color = None \/ color[1][1] # "hex" THEN None
    ELSE LET h == color[1][2]
             c == IF Len(h) = 3 THEN <<h[1], h[1], h[2], h[2], h[3], h[3]>> ELSE h
         IN IF Len(c) # 6 THEN None
            ELSE Some(<<16 * c[1] + c[2], 16 * c[3] + c[4], 16 * c[5] + c[6]>>)

\* int(c * 0.7): the float product falls just below the integer at 90, 170, 180
darker_component(c) ==
    IF c \in {90, 170, 180} THEN (c * 7) \div 10 - 1 ELSE (c * 7) \div 10

\* _darker_hex(color): "#%02x%02x%02x" of the darkened components
darker_hex(color) ==
    LET comps == hex_components(color)
    IN IF comps = None THEN color
       ELSE LET dk == [i \in 1..3 |-> darker_component(comps[1][i])]
            IN Some(<<"hex", <<dk[1] \div 16, dk[1] % 16, dk[2] \div 16, dk[2] % 16,
                              dk[3] \div 16, dk[3] % 16>>>>)

DefaultNodeFill == Some(<<"hex", <<4, 12, 7, 8, 10, 8>>>>)   \* "#4C78A8"
DefaultEdgeColor == Some(<<"hex", <<9, 9, 9, 9, 9, 9>>>>)    \* "#999999"
White == Some(<<"hex", <<15, 15, 15, 15, 15, 15>>>>)         \* "#ffffff"
NearBlack == Some(<<"hex", <<1, 10, 1, 10, 1, 10>>>>)        \* "#1a1a1a"
Black == Some(<<"hex", <<0, 0, 0, 0, 0, 0>>>>)               \* "#000000"

\* A fill that ignores the vertex's colour attribute.
node_fill_always_default(g, i) == DefaultNodeFill

\* NetworkSVG._node_fill
node_fill(g, i) ==
    LET color == attr_lookup(g.vattr, i, <<"Color", "color", "fill">>, None)
    IN IF Truthy(color) THEN color ELSE DefaultNodeFill

\* NetworkSVG._node_radius
node_radius(g, i) ==
    as_float(attr_lookup(g.vattr, i, <<"Size", "size", "radius", "Radius">>, None), Q(8))

\* NetworkSVG._node_outline
node_outline(g, i, fill_color) ==
    LET outline == attr_lookup(g.vattr, i, <<"OutlineColor", "outline_color", "stroke">>, None)
    IN IF Truthy(outline) THEN outline ELSE darker_hex(fill_color)

\* NetworkSVG._node_outline_width
node_outline_width(g, i) ==
    as_float(attr_lookup(g.vattr, i, <<"OutlineWidth", "outline_width", "stroke_width">>, None),
             Q(1))

\* An edge colour that takes the source node's fill for either flag.
edge_color_from_source(g, j, src_idx, tgt_idx) ==
    LET color      == attr_lookup(g.eattr, j, <<"Color", "color", "stroke">>, None)
        use_source == as_bool(attr_lookup(g.eattr, j, <<"UseSourceColor", "use_source_color">>, None))
        use_target == as_bool(attr_lookup(g.eattr, j, <<"UseTargetColor", "use_target_color">>, None))
        color2     == IF ~Truthy(color) /\ (use_source \/ use_target)
                      THEN node_fill(g, src_idx)
                      ELSE color
    IN IF Truthy(color2) THEN color2 ELSE DefaultEdgeColor

\* NetworkSVG._edge_color
edge_color(g, j, src_idx, tgt_idx) ==
    LET color      == attr_lookup(g.eattr, j, <<"Color", "color", "stroke">>, None)
        use_source == as_bool(attr_lookup(g.eattr, j, <<"UseSourceColor", "use_source_color">>, None))
        use_target == as_bool(attr_lookup(g.eattr, j, <<"UseTargetColor", "use_target_color">>, None))
        color2     == IF ~Truthy(color) /\ (use_source \/ use_target)
                      THEN node_fill(g, IF use_source THEN src_idx ELSE tgt_idx)
                      ELSE color
    IN IF Truthy(color2) THEN color2 ELSE DefaultEdgeColor

\* NetworkSVG._edge_width
edge_width(g, j) ==
    LET width  == attr_lookup(g.eattr, j, <<"Width", "width", "stroke_width">>, None)
        weight == attr_lookup(g.eattr, j, <<"weight", "Weight">>, None)
    IN IF width # None THEN as_float(width, Q(1))
       ELSE IF weight # None
       THEN QAdd(Q(1), QMul(Frac(1, 2), as_float(weight, Q(0))))
       ELSE Q(1)

(***************************************************************************)
(* Fit-to-view.  A fit_margin argument is <<"num", <<q>>>> for a number,   *)
(* <<"seq", members>> for a list or tuple whose members are Some(q) or,    *)
(* for a member float() rejects, None; <<"other", <<>>>> for anything else.*)
(***************************************************************************)
\* the nested _to_float of _normalize_margin
margin_to_float(val) == IF val = None THEN Q(0) ELSE val[1]

\* NetworkSVG._normalize_margin: (left, right, top, bottom)
normalize_margin(margin) ==
    IF margin[1] = "num"
    THEN LET val == margin[2][1] IN <<val, val, val, val>>
    ELSE IF margin[1] = "seq" /\ Len(margin[2]) = 2
    THEN LET hx == margin_to_float(margin[2][1])
             hy == margin_to_float(margin[2][2])
         IN <<hx, hx, hy, hy>>
    ELSE IF margin[1] = "seq" /\ Len(margin[2]) = 4
    THEN [i \in 1..4 |-> margin_to_float(margin[2][i])]
    ELSE <<Q(20), Q(20), Q(20), Q(20)>>

\* A fit that takes the larger of the two ratios as its scale.
fit_scale_max(avail_w, span_x, avail_h, span_y) ==
    QMax(QDiv(avail_w, span_x), QDiv(avail_h, span_y))

\* scale = min(avail_w / span_x, avail_h / span_y)
fit_scale(avail_w, span_x, avail_h, span_y) ==
    QMin(QDiv(avail_w, span_x), QDiv(avail_h, span_y))

\* one axis of the fit: the extra space, the offset and the fitted coordinate
\*   extra = max(avail - span * scale, 0.0) / 2.0
\*   offset = margin + extra - min * scale
fit_coordinate(v, scale, margin, avail, min_v, span) ==
    QAdd(QMul(v, scale),
         QSub(QAdd(margin, QDiv(QMax(QSub(avail, QMul(span, scale)), Q(0)), Q(2))),
              QMul(min_v, scale)))

\* the body of _fit_positions once the available area, the bounding box and
\* the scale are known
fit_all(positions, margin, avail_w, avail_h, min_x, min_y, span_x, span_y, scale) ==
    [i \in 1..Len(positions) |->
        Some(<<fit_coordinate(positions[i][1][1], scale, margin[1], avail_w, min_x, span_x),
               fit_coordinate(positions[i][1][2], scale, margin[3], avail_h, min_y, span_y)>>)]

\* the bounding box of _fit_positions: min and span of each axis
fit_box(positions, margin, avail_w, avail_h, xs, ys) ==
    fit_all(positions, margin, avail_w, avail_h, QMinOf(xs), QMinOf(ys),
            QMax(QSub(QMaxOf(xs), QMinOf(xs)), Eps),
            QMax(QSub(QMaxOf(ys), QMinOf(ys)), Eps),
            fit_scale(avail_w, QMax(QSub(QMaxOf(xs), QMinOf(xs)), Eps),
                      avail_h, QMax(QSub(QMaxOf(ys), QMinOf(ys)), Eps)))

\* NetworkSVG._fit_positions: [status, val]; margin is (left, right, top,
\* bottom)
fit_positions(fit_to_view, width, height, margin, positions) ==
    IF ~fit_to_view THEN [status |-> "ok", val |-> positions]
    ELSE IF \E i \in 1..Len(positions) : positions[i] = None
    THEN [status |-> "TypeError", val |-> <<>>]
    ELSE IF positions = <<>>
    THEN [status |-> "ValueError", val |-> <<>>]
    ELSE [status |-> "ok",
          val |-> fit_box(positions, margin,
                          QMax(QSub(QSub(width, margin[1]), margin[2]), Q(1)),
                          QMax(QSub(QSub(height, margin[3]), margin[4]), Q(1)),
                          [i \in 1..Len(positions) |-> positions[i][1][1]],
                          [i \in 1..Len(positions) |-> positions[i][1][2]])]

(***************************************************************************)
(* The values written into SVG attributes.  str() of a value is a token:   *)
(* <<"num", q>> for a float, <<"int", n>> for an int, <<"str", s>> for a   *)
(* fixed string, the colour or attribute value itself for one taken from   *)
(* the graph, <<"translate", <<x, y>>>> for f"translate({x},{y})" and      *)
(* <<"path", fields>> for the arc's path data.                             *)
(***************************************************************************)
Num(q) == <<"num", q>>
Str(s) == <<"str", s>>

\* the largest r in lo..hi with r * r <= n
RECURSIVE ISqrtIn(_, _, _)
ISqrtIn(n, lo, hi) ==
    IF lo >= hi THEN lo
    ELSE LET mid == (lo + hi + 1) \div 2
         IN IF mid * mid <= n THEN ISqrtIn(n, mid, hi) ELSE ISqrtIn(n, lo, mid - 1)

\* x ** 0.5 for a rational x >= 0: exact when x is the square of a rational,
\* and rounded down to a multiple of 1/x.d otherwise
QSqrt(x) ==
    LET n == x.b * x.d
        hi == IF n < 46340 THEN n ELSE 46340
    IN Frac(ISqrtIn(n, 0, hi), x.d)

\* f"{x:.3f}": the nearest multiple of 1/1000
Fmt3(x) ==
    LET t == 2000 * x.b + x.d
        n == t \div (2 * x.d)
    IN IF t % (2 * x.d) = 0 /\ x.c < 0 THEN Frac(n - 1, 1000) ELSE Frac(n, 1000)

\* NetworkSVG._directed_arc_path
directed_arc_path(factor0, start, end) ==
    LET sx == start[1]
        sy == start[2]
        tx == end[1]
        ty == end[2]
        dx == QSub(tx, sx)
        dy == QSub(ty, sy)
        dist == QSqrt(QAdd(QMul(dx, dx), QMul(dy, dy)))
        factor == QMax(factor0, Frac(51, 100))
        radius == QMax(QMul(dist, factor), Q(1))
        large_arc == 0
        sweep == 1
    IN <<"path", [mx |-> Fmt3(sx), my |-> Fmt3(sy),
                  rx |-> Fmt3(radius), ry |-> Fmt3(radius), rotation |-> 0,
                  large_arc |-> large_arc, sweep |-> sweep,
                  x |-> Fmt3(tx), y |-> Fmt3(ty)]>>

\* An edge element that is a straight line whatever the graph and the flag.
edge_shape_always_line(directed_curves, is_directed) == "line"

\* the branch of _create_edge_element: arc or straight line
edge_shape(directed_curves, is_directed) ==
    IF directed_curves /\ is_directed THEN "path" ELSE "line"

\* return sel.elements[0]: [status, doc, el]
appended(sel) == [status |-> "ok", doc |-> sel.doc, el |-> sel.kids[1]]

\* the default edge of _create_edge_element between s and t: [status, doc, el]
default_edge(st, g, s, t, stroke, width, opacity) ==
    IF edge_shape(st.directed_curves, g.directed) = "path"
    THEN appended(Selection_append(st.doc, <<st.edge_layer>>, "path",
            << <<<<"d">>, directed_arc_path(st.directed_curve_factor, s, t)>>,
               <<<<"fill">>, Str("none")>>,
               <<<<"stroke">>, stroke>>,
               <<<<"stroke", "width">>, Num(width)>>,
               <<<<"opacity">>, Num(opacity)>> >>))
    ELSE appended(Selection_append(st.doc, <<st.edge_layer>>, "line",
            << <<<<"x1">>, Num(s[1])>>, <<<<"y1">>, Num(s[2])>>,
               <<<<"x2">>, Num(t[1])>>, <<<<"y2">>, Num(t[2])>>,
               <<<<"stroke">>, stroke>>,
               <<<<"stroke", "width">>, Num(width)>>,
               <<<<"opacity">>, Num(opacity)>> >>))

\* NetworkSVG._create_edge_element with no edge generator:
\* [status, doc, el], st holds the document and the renderer's fields
create_edge_element(st, g, j) ==
    IF st.positions[g.edges[j + 1][1] + 1] = None \/ st.positions[g.edges[j + 1][2] + 1] = None
    THEN [status |-> "TypeError", doc |-> st.doc, el |-> 0]
    ELSE default_edge(st, g,
            st.positions[g.edges[j + 1][1] + 1][1],
            st.positions[g.edges[j + 1][2] + 1][1],
            edge_color(g, j, g.edges[j + 1][1], g.edges[j + 1][2])[1],
            edge_width(g, j),
            as_float(attr_lookup(g.eattr, j, <<"Opacity", "opacity", "alpha">>, None),
                     Frac(85, 100)))

\* node_sel.append("circle", ...); return node_sel.elements[0]
node_circle(node_sel, radius, fill, stroke, stroke_width) ==
    [status |-> "ok",
     doc |-> Selection_append(node_sel.doc, node_sel.kids, "circle",
                << <<<<"r">>, Num(radius)>>,
                   <<<<"fill">>, fill[1]>>,
                   <<<<"stroke">>, stroke[1]>>,
                   <<<<"stroke", "width">>, Num(stroke_width)>> >>).doc,
     el |-> node_sel.kids[1]]

\* NetworkSVG._create_node_element with no node generator: [status, doc, el]
create_node_element(st, g, idx) ==
    IF st.positions[idx + 1] = None
    THEN [status |-> "TypeError", doc |-> st.doc, el |-> 0]
    ELSE node_circle(Selection_append(st.doc, <<st.node_layer>>, "g",
                        << <<<<"class">>, Str("node")>>,
                           <<<<"transform">>, <<"translate", st.positions[idx + 1][1]>>>> >>),
                     node_radius(g, idx), node_fill(g, idx),
                     node_outline(g, idx, node_fill(g, idx)),
                     node_outline_width(g, idx))

\* A label test that hides the label for any falsy show-label value.
label_omitted_falsy_show(show_label, label_text) ==
    \/ show_label # None /\ ~Truthy(show_label)
    \/ ~Truthy(label_text)

\* the early returns of _create_label_element: show_label is False, or
\* not label_text
label_omitted(show_label, label_text) ==
    \/ show_label # None /\ show_label[1][1] = "bool" /\ show_label[1][2] = 0
    \/ ~Truthy(label_text)

\* .text(label_text); return label_group.elements[0]
label_with_text(group_el, text_sel, label_text) ==
    [status |-> "ok",
     doc |-> [text_sel.doc EXCEPT !.textOf[text_sel.kids[1]] = Some(label_text[1])],
     el |-> Some(group_el)]

\* label_group.append("text", **text_attrs)
label_text_element(label_group, fill, stroke_width, font_size, label_text) ==
    label_with_text(label_group.kids[1],
        Selection_append(label_group.doc, label_group.kids, "text",
            << <<<<"text", "anchor">>, Str("middle")>>,
               <<<<"dy">>, Str("0.35em")>>,
               <<<<"fill">>, (IF Truthy(fill) THEN White ELSE NearBlack)[1]>>,
               <<<<"stroke">>, (IF Truthy(fill) THEN darker_hex(fill) ELSE Black)[1]>>,
               <<<<"stroke", "width">>, Num(stroke_width)>>,
               <<<<"paint", "order">>, Str("stroke fill")>>,
               <<<<"stroke", "linecap">>, Str("round")>>,
               <<<<"stroke", "linejoin">>, Str("round")>>,
               <<<<"stroke", "miterlimit">>, <<"int", 1>>>> >>
            \o (IF Truthy(font_size) THEN << <<<<"font", "size">>, font_size[1]>> >> ELSE <<>>)),
        label_text)

\* NetworkSVG._create_label_element with no label generator:
\* [status, doc, el]; el is None for a vertex that gets no label
create_label_element(st, g, idx) ==
    IF label_omitted(attr_lookup(g.vattr, idx, <<"ShowLabel", "show_label">>, None),
                     attr_lookup(g.vattr, idx, <<"Label", "label", "name">>, None))
    THEN [status |-> "ok", doc |-> st.doc, el |-> None]
    ELSE IF st.positions[idx + 1] = None
    THEN [status |-> "TypeError", doc |-> st.doc, el |-> None]
    ELSE label_text_element(
            Selection_append(st.doc, <<st.label_layer>>, "g",
                << <<<<"class">>, Str("label")>>,
                   <<<<"transform">>, <<"translate", st.positions[idx + 1][1]>>>> >>),
            node_fill(g, idx),
            as_float(attr_lookup(g.vattr, idx, <<"LabelOutline", "label_outline">>, None), Q(2)),
            attr_lookup(g.vattr, idx, <<"LabelSize", "label_size", "FontSize", "font_size">>, None),
            attr_lookup(g.vattr, idx, <<"Label", "label", "name">>, None))

\* the loop of _build_edges: [status, doc, els]
RECURSIVE edge_elements(_, _, _, _)
RECURSIVE edge_elements_next(_, _, _, _, _)
edge_elements_next(st, g, j, acc, r) ==
    IF r.status # "ok" THEN [status |-> r.status, doc |-> r.doc, els |-> acc]
    ELSE edge_elements([st EXCEPT !.doc = r.doc], g, j + 1, Append(acc, r.el))

edge_elements(st, g, j, acc) ==
    IF j >= Len(g.edges) THEN [status |-> "ok", doc |-> st.doc, els |-> acc]
    ELSE edge_elements_next(st, g, j, acc, create_edge_element(st, g, j))

\* the loop of _build_nodes: [status, doc, els]
RECURSIVE node_elements(_, _, _, _)
RECURSIVE node_elements_next(_, _, _, _, _)
node_elements_next(st, g, idx, acc, r) ==
    IF r.status # "ok" THEN [status |-> r.status, doc |-> r.doc, els |-> acc]
    ELSE node_elements([st EXCEPT !.doc = r.doc], g, idx + 1, Append(acc, r.el))

node_elements(st, g, idx, acc) ==
    IF idx >= g.vcount THEN [status |-> "ok", doc |-> st.doc, els |-> acc]
    ELSE node_elements_next(st, g, idx, acc, create_node_element(st, g, idx))

\* the loop of _build_labels: [status, doc, els, vertices]
RECURSIVE label_elements(_, _, _, _, _)
RECURSIVE label_elements_next(_, _, _, _, _, _)
label_elements_next(st, g, idx, acc, label_vertices, r) ==
    IF r.status # "ok"
    THEN [status |-> r.status, doc |-> r.doc, els |-> acc, vertices |-> label_vertices]
    ELSE IF r.el = None
    THEN label_elements(st, g, idx + 1, acc, label_vertices)
    ELSE label_elements([st EXCEPT !.doc = r.doc], g, idx + 1,
                        Append(acc, r.el[1]), Append(label_vertices, idx))

label_elements(st, g, idx, acc, label_vertices) ==
    IF idx >= g.vcount
    THEN [status |-> "ok", doc |-> st.doc, els |-> acc, vertices |-> label_vertices]
    ELSE label_elements_next(st, g, idx, acc, label_vertices, create_label_element(st, g, idx))

\* the data bound to the layers: the graph's edge j and vertex i
EdgeDatum(j) == Some(<<"edge", j>>)
VertexDatum(i) == Some(<<"vertex", i>>)

\* sel = Selection(elements); if elements: sel.data(items)
bind_layer(b, els, items) ==
    IF els = <<>> THEN b ELSE Selection_data(b, els, items).binding

\* MiniD3SVG.__init__: width and height are written with str()
MiniD3SVG_init(width, height, bg) ==
    IF Truthy(bg)
    THEN [tagOf |-> <<"svg", "rect">>, kids |-> << <<2>>, <<>> >>,
          attrOf |-> <<el_attrs(<< <<<<"width">>, Num(width)>>,
                                   <<<<"height">>, Num(height)>> >>, NoAttrs),
                       el_attrs(<< <<<<"x">>, Str("0")>>, <<<<"y">>, Str("0")>>,
                                   <<<<"width">>, Str("100%")>>,
                                   <<<<"height">>, Str("100%")>>,
                                   <<<<"fill">>, bg[1]>> >>, NoAttrs)>>,
          textOf |-> <<None, None>>]
    ELSE [tagOf |-> <<"svg">>, kids |-> << <<>> >>,
          attrOf |-> <<el_attrs(<< <<<<"width">>, Num(width)>>,
                                   <<<<"height">>, Num(height)>> >>, NoAttrs)>>,
          textOf |-> <<None>>]

\* MiniD3SVG.add_style: a style element inserted as the root's first child
add_style(d, css_text) ==
    [InsertFirstChild(d, Root, "style", << <<<<"type">>, Str("text/css")>> >>)
        EXCEPT !.textOf[Len(d.tagOf) + 1] = Some(css_text)]

(***************************************************************************)
(* NetworkSVG.__init__.  The renderer's fields after construction; status  *)
(* is "ok", or the type of the exception that ended the constructor, and   *)
(* index is the vertex index the exception's message names, if any.        *)
(***************************************************************************)
NoNet ==
    [status |-> "none", index |-> None, original_positions |-> <<>>,
     positions |-> <<>>, fit_margin |-> <<>>,
     edge_layer |-> 0, node_layer |-> 0, label_layer |-> 0,
     edges |-> <<>>, nodes |-> <<>>, labels |-> <<>>,
     curve_radius_attr |-> None, edge_color_mode |-> "base"]

\* the constructor raised: [net, doc, binding]
Raised(status, index, d, b) ==
    [net |-> [NoNet EXCEPT !.status = status, !.index = index], doc |-> d, binding |-> b]

\* self.labels = self._build_labels(), and the finished renderer
init_labels(g, st, b, margin, original, es, ns, ls) ==
    IF ls.status # "ok" THEN Raised(ls.status, None, ls.doc, b)
    ELSE [net |-> [status |-> "ok", index |-> None,
                   original_positions |-> original,
                   positions |-> st.positions, fit_margin |-> margin,
                   edge_layer |-> st.edge_layer, node_layer |-> st.node_layer,
                   label_layer |-> st.label_layer,
                   edges |-> es.els, nodes |-> ns.els, labels |-> ls.els,
                   curve_radius_attr |-> None, edge_color_mode |-> "base"],
          doc |-> ls.doc,
          binding |-> bind_layer(b, ls.els,
                         [k \in 1..Len(ls.vertices) |-> VertexDatum(ls.vertices[k])])]

\* self.nodes = self._build_nodes()
init_nodes(g, st, b, margin, original, es, ns) ==
    IF ns.status # "ok" THEN Raised(ns.status, None, ns.doc, b)
    ELSE init_labels(g, st,
                     bind_layer(b, ns.els, [i \in 1..g.vcount |-> VertexDatum(i - 1)]),
                     margin, original, es, ns,
                     label_elements([st EXCEPT !.doc = ns.doc], g, 0, <<>>, <<>>))

\* self.edges = self._build_edges()
init_edges(g, st, b, margin, original, es) ==
    IF es.status # "ok" THEN Raised(es.status, None, es.doc, b)
    ELSE init_nodes(g, st,
                    bind_layer(b, es.els, [j \in 1..Len(g.edges) |-> EdgeDatum(j - 1)]),
                    margin, original, es,
                    node_elements([st EXCEPT !.doc = es.doc], g, 0, <<>>))

\* the document and the fields the element builders read
renderer_state(a, fitted, d, layers) ==
    [doc |-> d, positions |-> fitted,
     directed_curves |-> a.directed_curves,
     directed_curve_factor |-> a.directed_curve_factor,
     edge_layer |-> layers - 2, node_layer |-> layers - 1, label_layer |-> layers]

\* the builders start from the renderer state st
init_build(g, st, b, margin, original) ==
    init_edges(g, st, b, margin, original, edge_elements(st, g, 0, <<>>))

\* the label font style; d is the document with the three layer groups
\* appended, the last three elements of it
init_layers(g, a, b, margin, original, fitted, d) ==
    init_build(g,
               renderer_state(a, fitted,
                   IF a.label_font_family # None /\ a.label_font_family[1] # ""
                   THEN add_style(d, <<"css", ".label text", "font-family",
                                       a.label_font_family[1]>>)
                   ELSE d,
                   Len(d.tagOf)),
               b, margin, original)

\* self.positions = self._fit_positions(self._original_positions)
init_fitted(g, a, b, svg0, margin, original, fitted) ==
    IF fitted.status # "ok" THEN Raised(fitted.status, None, svg0, b)
    ELSE init_layers(g, a, b, margin, original, fitted.val,
            AppendChild(
                AppendChild(
                    AppendChild(svg0, Root, "g", << <<<<"class">>, Str("edge-visuals")>> >>),
                    Root, "g", << <<<<"class">>, Str("node-visuals")>> >>),
                Root, "g", << <<<<"class">>, Str("label-visuals")>> >>))

\* self._original_positions = self._resolve_positions(positions)
init_resolved(g, a, b, svg0, margin, original) ==
    IF original.status # "ok" THEN Raised(original.status, original.index, svg0, b)
    ELSE init_fitted(g, a, b, svg0, margin, original.val,
                     fit_positions(a.fit_to_view, a.width, a.height, margin, original.val))

\* the result of NetworkSVG(graph, **args): [net, doc, binding]
NetworkSVG_init(g, a, b) ==
    init_resolved(g, a, b, MiniD3SVG_init(a.width, a.height, a.bg),
                  normalize_margin(a.fit_margin), resolve_positions(g, a.positions))

\* the constructor's result becomes the state
construct_result(r) ==
    /\ net' = r.net
    /\ doc' = r.doc
    /\ binding' = r.binding
    /\ outcome' = r.net.status

\* net = NetworkSVG(graph, **args)
Construct ==
    /\ net.status = "none"
    /\ construct_result(NetworkSVG_init(graph, args, binding))
    /\ lastOp' = "NetworkSVG"
    /\ UNCHANGED <<exported, ordinal>>
    /\ selection' = <<>>
    /\ calls' = <<>>
    /\ UNCHANGED <<graph, args>>

(***************************************************************************)
(* The runs of the renderer.  Every run starts from a graph and a set of   *)
(* constructor arguments and constructs the renderer.                      *)
(***************************************************************************)
MaxV == 2      \* most vertices of a graph
MaxE == 2      \* most edges of a graph

DefaultFontFamily == Some("Roboto, Helvetica, Arial, sans-serif")

DefaultArgs ==
    [width |-> Q(800), height |-> Q(600), bg |-> None, positions |-> None,
     directed_curves |-> FALSE, directed_curve_factor |-> Q(1),
     label_font_family |-> DefaultFontFamily,
     fit_to_view |-> FALSE, fit_margin |-> <<"num", <<Q(20)>>>>]

NoVAttr == [n \in {} |-> <<>>]

EmptyGraph(v) ==
    [vcount |-> v, directed |-> FALSE, edges |-> <<>>, vattr |-> NoVAttr, eattr |-> NoVAttr]

InitNet(g, a) ==
    /\ doc = NewDoc
    /\ binding = NoBinding
    /\ selection = <<>>
    /\ lastOp = "graph"
    /\ exported = None
    /\ ordinal = Unused
    /\ outcome = "ok"
    /\ calls = <<>>
    /\ graph = g
    /\ args = a
    /\ net = NoNet

\* Position sources.  Each source carries coordinates no other source has, so
\* that the resolved positions tell which source was read.
PosAttrNames == {"Position", "position", "positions", "POSITION", "x", "X", "y", "Y"}

SourceCode(name) ==
    CASE name = "Position" -> 1 [] name = "position" -> 2 [] name = "positions" -> 3
      [] name = "POSITION" -> 4 [] name = "x" -> 5 [] name = "X" -> 6
      [] name = "y" -> 7 [] name = "Y" -> 8 [] name = "seq" -> 9 [] name = "callable" -> 10

SourceValues(name, v) ==
    IF name \in {"x", "X", "y", "Y"}
    THEN [i \in 1..v |-> Some(<<"num", SourceCode(name)>>)]
    ELSE [i \in 1..v |-> Pair(SourceCode(name), i - 1)]

PriorityGraphs ==
    {[EmptyGraph(v) EXCEPT !.vattr = [n \in names |-> SourceValues(n, v)]] :
        v \in 1..MaxV, names \in SUBSET PosAttrNames}

PriorityArgs(v) ==
    {DefaultArgs} \cup
    {[DefaultArgs EXCEPT !.positions = Some(<<"seq", SourceValues("seq", n)>>)] :
        n \in {v, v + 1}} \cup
    {[DefaultArgs EXCEPT !.positions = Some(<<"callable", SourceValues("callable", v)>>)]}

\* Coordinates of every shape a caller can supply for one vertex.
PosValues ==
    {Pair(0, 0), None,
     Some(<<"seq", <<<<"num", 1>>>>>>),
     Some(<<"seq", <<<<"num", 1>>, <<"num", 2>>, <<"num", 3>>>>>>),
     Some(<<"seq", <<<<"num", 1>>, <<"text", 0>>>>>>),
     Some(<<"seq", <<<<"none", 0>>, <<"num", 2>>>>>>),
     Some(<<"other", <<>>>>)}

XYValues == {Some(<<"num", 1>>), Some(<<"text", 0>>), None}

ValueGraphs ==
    {[EmptyGraph(v) EXCEPT !.vattr = [n \in {"Position"} |-> values]] :
        v \in 1..MaxV, values \in UNION {[1..n -> PosValues] : n \in 1..MaxV}}
    \cup
    {[EmptyGraph(v) EXCEPT !.vattr = [n \in {"x", "y"} |-> IF n = "x" THEN xs ELSE ys]] :
        v \in 1..MaxV, xs \in UNION {[1..n -> XYValues] : n \in 1..MaxV},
        ys \in UNION {[1..n -> XYValues] : n \in 1..MaxV}}

ValueArgs(v) ==
    {[DefaultArgs EXCEPT !.positions = Some(<<kind, values>>)] :
        kind \in {"seq", "callable"}, values \in [1..v -> PosValues]}

InitPos ==
    \/ \E g \in PriorityGraphs : \E a \in PriorityArgs(g.vcount) : InitNet(g, a)
    \/ \E g \in ValueGraphs :
          /\ \A n \in DOMAIN g.vattr : Len(g.vattr[n]) = g.vcount
          /\ InitNet(g, DefaultArgs)
    \/ \E v \in 1..MaxV : \E a \in ValueArgs(v) : InitNet(EmptyGraph(v), a)

NextNet == Construct

SpecPos == InitPos /\ [][NextNet]_vars

(***************************************************************************)
(* Position resolution: claims C7 and C8.                                  *)
(***************************************************************************)
Constructed == lastOp = "NetworkSVG"

\* a coordinate that is a pair of exactly two numbers
WellFormed(value) ==
    /\ value # None
    /\ value[1][1] = "seq"
    /\ Len(value[1][2]) = 2
    /\ \A k \in 1..2 : value[1][2][k][1] = "num"

\* the positions a list of well-formed coordinates stands for
Coordinates(values) ==
    [i \in 1..Len(values) |->
        Some(<<Q(values[i][1][2][1][2]), Q(values[i][1][2][2][2])>>)]

VNames == DOMAIN graph.vattr

\* the coordinates the constructor is given, taken from the source the code reads
SuppliedCoordinates ==
    IF args.positions # None THEN args.positions[1][2]
    ELSE IF "Position" \in VNames THEN graph.vattr["Position"]
    ELSE IF "position" \in VNames THEN graph.vattr["position"]
    ELSE IF "positions" \in VNames THEN graph.vattr["positions"]
    ELSE IF {"x", "X"} \cap VNames # {} /\ {"y", "Y"} \cap VNames # {}
    THEN xy_values(graph.vattr[IF "x" \in VNames THEN "x" ELSE "X"],
                   graph.vattr[IF "y" \in VNames THEN "y" ELSE "Y"])
    ELSE <<>>

AllWellFormed ==
    /\ args.positions # None => \A i \in 1..Len(args.positions[1][2]) :
                                    WellFormed(args.positions[1][2][i])
    /\ \A n \in VNames \cap {"Position", "position", "positions", "POSITION"} :
          \A i \in 1..graph.vcount : WellFormed(graph.vattr[n][i])
    /\ \A n \in VNames \cap {"x", "X", "y", "Y"} :
          \A i \in 1..graph.vcount :
             graph.vattr[n][i] # None /\ graph.vattr[n][i][1][1] = "num"

ExplicitUsable ==
    /\ args.positions # None
    /\ args.positions[1][1] = "seq" => Len(args.positions[1][2]) = graph.vcount

ResolvedFrom(values) ==
    net.status = "ok" /\ net.original_positions = Coordinates(values)

\* C7 as stated: an explicit positions argument wins; otherwise an attribute
\* named position in any letter case is used; otherwise x with y, or X with Y;
\* with none of these the constructor raises ValueError.
C7_AnyLetterCase ==
    (Constructed /\ AllWellFormed) =>
        IF ExplicitUsable THEN ResolvedFrom(args.positions[1][2])
        ELSE IF args.positions # None THEN TRUE
        ELSE IF VNames \cap {"Position", "position", "POSITION"} # {}
        THEN \E n \in VNames \cap {"Position", "position", "POSITION"} :
                ResolvedFrom(graph.vattr[n])
        ELSE IF {"x", "y"} \subseteq VNames
        THEN ResolvedFrom(xy_values(graph.vattr["x"], graph.vattr["y"]))
        ELSE IF {"X", "Y"} \subseteq VNames
        THEN ResolvedFrom(xy_values(graph.vattr["X"], graph.vattr["Y"]))
        ELSE net.status = "ValueError"

\* C7, amended: an explicit positions argument wins; otherwise the first of the
\* attributes "Position", "position", "positions" that the graph has is used;
\* otherwise the x attribute (x, else X) paired with the y attribute (y, else
\* Y); with none of these the constructor raises ValueError.
C7_PositionPriority ==
    (Constructed /\ AllWellFormed) =>
        IF ExplicitUsable THEN ResolvedFrom(args.positions[1][2])
        ELSE IF args.positions # None THEN TRUE
        ELSE IF "Position" \in VNames THEN ResolvedFrom(graph.vattr["Position"])
        ELSE IF "position" \in VNames THEN ResolvedFrom(graph.vattr["position"])
        ELSE IF "positions" \in VNames THEN ResolvedFrom(graph.vattr["positions"])
        ELSE IF {"x", "X"} \cap VNames # {} /\ {"y", "Y"} \cap VNames # {}
        THEN ResolvedFrom(xy_values(graph.vattr[IF "x" \in VNames THEN "x" ELSE "X"],
                                    graph.vattr[IF "y" \in VNames THEN "y" ELSE "Y"]))
        ELSE net.status = "ValueError"

\* an explicit argument has won over a Position attribute and x/y attributes
C7_Witness ==
    /\ Constructed /\ AllWellFormed /\ ExplicitUsable
    /\ {"Position", "x", "y"} \subseteq VNames
    /\ ResolvedFrom(args.positions[1][2])
    /\ net.original_positions # Coordinates(graph.vattr["Position"])

\* C8: a supplied coordinate that is not a pair of exactly two numbers makes
\* the constructor raise ValueError naming an offending vertex index, and no
\* such value is stored in the resolved positions.
C8_InvalidCoordinateRejected ==
    (Constructed /\ Len(SuppliedCoordinates) = graph.vcount) =>
        LET bad == {i \in 0..(graph.vcount - 1) : ~WellFormed(SuppliedCoordinates[i + 1])}
        IN /\ bad # {} => /\ net.status = "ValueError"
                          /\ net.index # None
                          /\ net.index[1] \in bad
           /\ net.status = "ok" =>
                 \A i \in 1..Len(net.original_positions) : net.original_positions[i] # None

(***************************************************************************)
(* Fit-to-view: claim C9.                                                  *)
(***************************************************************************)
FitCoords == {0, 1, 3}

FitPositions ==
    UNION {[1..v -> {Pair(x, y) : x \in FitCoords, y \in FitCoords}] : v \in 0..MaxV}
    \cup {<<Pair(1000, 1000), Pair(2000, 1500)>>}

FitMargins ==
    {<<"num", <<Q(10)>>>>, <<"num", <<Q(0)>>>>,
     <<"seq", <<Some(Q(10)), Some(Q(30))>>>>,
     <<"seq", <<Some(Q(10)), Some(Q(20)), Some(Q(30)), Some(Q(40))>>>>,
     <<"seq", <<Some(Frac(399, 4)), Some(Frac(399, 4)), Some(Q(10)), Some(Q(10))>>>>,
     <<"seq", <<Some(Q(120)), Some(Q(120)), Some(Q(10)), Some(Q(10))>>>>,
     <<"seq", <<Some(Q(10)), None>>>>,
     <<"seq", <<Some(Q(10)), Some(Q(10)), Some(Q(10))>>>>,
     <<"other", <<>>>>}

FitArgs ==
    {[DefaultArgs EXCEPT !.width = Q(200), !.height = Q(h), !.fit_to_view = fit,
                         !.fit_margin = margin, !.positions = Some(<<"seq", ps>>)] :
        h \in {100, 200}, fit \in {TRUE}, margin \in FitMargins, ps \in FitPositions}
    \cup
    {[DefaultArgs EXCEPT !.width = Q(200), !.height = Q(200),
                         !.positions = Some(<<"seq", ps>>)] :
        ps \in [1..1 -> {Pair(x, y) : x \in FitCoords, y \in FitCoords}]}

InitFit == \E a \in FitArgs : InitNet(EmptyGraph(Len(a.positions[1][2])), a)

SpecFit == InitFit /\ [][NextNet]_vars

FitX(i) == net.positions[i][1][1]
FitY(i) == net.positions[i][1][2]
OrigX(i) == net.original_positions[i][1][1]
OrigY(i) == net.original_positions[i][1][2]

\* every fitted coordinate lies inside the margins
InsideMargins ==
    LET left   == net.fit_margin[1]
        right  == net.fit_margin[2]
        top    == net.fit_margin[3]
        bottom == net.fit_margin[4]
    IN \A i \in 1..Len(net.positions) :
          /\ QLeq(left, FitX(i)) /\ QLeq(FitX(i), QSub(args.width, right))
          /\ QLeq(top, FitY(i)) /\ QLeq(FitY(i), QSub(args.height, bottom))

\* one factor scales both axes: every difference of fitted coordinates is the
\* same multiple of the difference of the original coordinates
SameFactor ==
    \A i, j, k, l \in 1..Len(net.positions) :
        LET dx  == QSub(OrigX(i), OrigX(j))
            dy  == QSub(OrigY(k), OrigY(l))
            dx2 == QSub(OrigX(k), OrigX(l))
            dy2 == QSub(OrigY(i), OrigY(j))
            fx  == QSub(FitX(i), FitX(j))
            fy  == QSub(FitY(k), FitY(l))
            fx2 == QSub(FitX(k), FitX(l))
            fy2 == QSub(FitY(i), FitY(j))
        IN /\ QMul(fx, dy) = QMul(fy, dx)
           /\ QMul(fx, dx2) = QMul(fx2, dx)
           /\ QMul(fy2, dy) = QMul(fy, dy2)

Fitted == Constructed /\ args.fit_to_view /\ graph.vcount > 0

AvailW == QSub(QSub(args.width, net.fit_margin[1]), net.fit_margin[2])
AvailH == QSub(QSub(args.height, net.fit_margin[3]), net.fit_margin[4])

LabelOptions ==
    {[label |-> None, show |-> None],
     [label |-> Some(<<"empty", 0>>), show |-> None],
     [label |-> Some(<<"str", "A">>), show |-> None],
     [label |-> Some(<<"str", "A">>), show |-> Some(<<"bool", 0>>)],
     [label |-> Some(<<"str", "A">>), show |-> Some(<<"bool", 1>>)],
     [label |-> Some(<<"str", "A">>), show |-> Some(<<"num", 0>>)],
     [label |-> None, show |-> Some(<<"bool", 0>>)]}

LabelKeys == {<<"Label", "ShowLabel">>, <<"name", "show_label">>}

EdgePairs(v) == {<<i, j>> \in (0..(v - 1)) \X (0..(v - 1)) : i < j \/ (i = 0 /\ j = 0)}

EdgeLists(v) == UNION {[1..n -> EdgePairs(v)] : n \in 0..MaxE}

\* the label values of the graphs that have edges
EdgeLabelOptions ==
    {[label |-> None, show |-> None],
     [label |-> Some(<<"str", "A">>), show |-> None],
     [label |-> Some(<<"str", "A">>), show |-> Some(<<"bool", 0>>)]}

LabelGraph(v, es, opts, keys) ==
    [EmptyGraph(v) EXCEPT
        !.edges = es,
        !.vattr = [n \in {"Position", keys[1], keys[2]} |->
                      IF n = "Position" THEN [i \in 1..v |-> Pair(i, i)]
                      ELSE IF n = keys[1] THEN [i \in 1..v |-> opts[i].label]
                      ELSE [i \in 1..v |-> opts[i].show]]]

\* every label value on graphs without edges, every edge list on graphs
\* whose vertices are unlabelled, labelled or labelled and hidden
LabelGraphsOf(v) ==
    {LabelGraph(v, <<>>, opts, keys) : opts \in [1..v -> LabelOptions], keys \in LabelKeys}
    \cup
    {LabelGraph(v, es, opts, <<"Label", "ShowLabel">>) :
        es \in EdgeLists(v), opts \in [1..v -> EdgeLabelOptions]}

LabelGraphs == UNION {LabelGraphsOf(v) : v \in 0..MaxV}

\* endpoints whose distances are whole numbers: 0, 3, 4 and 5
ArcGrid == {Pair(x, y) : x \in {0, 3}, y \in {0, 4}}

CurveFactors == {Q(0), Frac(1, 4), Frac(51, 100), Q(1), Q(2)}

\* the endpoints of test_directed_curve_radius_matches_gephi_default
GephiPositions == <<Pair(0, 0), Pair(100, 0)>>

ChainEdges(v, back) ==
    [j \in 1..(v - 1) |-> <<j - 1, j>>] \o (IF back THEN << <<1, 0>> >> ELSE <<>>)

ArcGraphs ==
    {[EmptyGraph(Len(ps)) EXCEPT
        !.directed = directed,
        !.edges = ChainEdges(Len(ps), back),
        !.vattr = [n \in {"Position"} |-> ps]] :
        ps \in UNION {[1..v -> ArcGrid] : v \in 2..MaxV} \cup {GephiPositions},
        directed \in BOOLEAN, back \in BOOLEAN}

ArcArgs ==
    {[DefaultArgs EXCEPT !.directed_curves = curves, !.directed_curve_factor = f] :
        curves \in BOOLEAN, f \in CurveFactors}

InitBuild ==
    \/ \E g \in LabelGraphs : InitNet(g, DefaultArgs)
    \/ \E g \in ArcGraphs : \E a \in ArcArgs : InitNet(g, a)

SpecBuild == InitBuild /\ [][NextNet]_vars

LabelText(i) == attr_lookup(graph.vattr, i, <<"Label", "label", "name">>, None)
ShowLabel(i) == attr_lookup(graph.vattr, i, <<"ShowLabel", "show_label">>, None)

\* vertex i has non-empty label text and no explicitly false show-label value
Labelled(i) ==
    /\ LabelText(i) # None /\ LabelText(i)[1][1] = "str"
    /\ ~(ShowLabel(i) # None /\ ShowLabel(i)[1] = <<"bool", 0>>)

LabelledVertices == {i \in 0..(graph.vcount - 1) : Labelled(i)}

Distinct(els) == \A i, j \in 1..Len(els) : els[i] = els[j] => i = j

\* C6: after construction with the default generators there is one node per
\* vertex, one edge element per edge, one position per vertex and one label
\* per vertex that has non-empty label text and no explicitly false
\* show-label value, in vertex order; node i is bound to vertex i, edge j to
\* edge j and every label to its vertex.
C6_LayerCounts ==
    (Constructed /\ net.status = "ok") =>
        /\ Len(net.nodes) = graph.vcount
        /\ Len(net.edges) = Len(graph.edges)
        /\ Len(net.positions) = graph.vcount
        /\ Len(net.labels) = Cardinality(LabelledVertices)
        /\ Distinct(net.nodes \o net.edges \o net.labels)
        /\ \A i \in 1..Len(net.nodes) : get_data(binding, net.nodes[i]) = VertexDatum(i - 1)
        /\ \A j \in 1..Len(net.edges) : get_data(binding, net.edges[j]) = EdgeDatum(j - 1)
        /\ \A k \in 1..Len(net.labels) :
              \E i \in LabelledVertices :
                 /\ get_data(binding, net.labels[k]) = VertexDatum(i)
                 /\ Cardinality({h \in LabelledVertices : h < i}) = k - 1

\* a graph with an edge, a labelled vertex and a vertex whose label is hidden
C6_Witness ==
    /\ Constructed /\ net.status = "ok"
    /\ Len(net.edges) >= 1 /\ Len(net.nodes) = 2 /\ Len(net.labels) = 1
    /\ \E i \in 0..(graph.vcount - 1) :
          ShowLabel(i) # None /\ ShowLabel(i)[1] = <<"bool", 0>> /\ LabelText(i) # None

EdgeSource(j) == net.positions[graph.edges[j][1] + 1][1]
EdgeTarget(j) == net.positions[graph.edges[j][2] + 1][1]

\* r = max(dist * max(factor, 0.51), 1.0), dist the distance from s to t
IsArcRadius(r, s, t) ==
    LET dx == QSub(t[1], s[1])
        dy == QSub(t[2], s[2])
        f  == QMax(args.directed_curve_factor, Frac(51, 100))
        squared == QMul(QMul(f, f), QAdd(QMul(dx, dx), QMul(dy, dy)))
    IN IF QLeq(squared, Q(1)) THEN r = Q(1)
       ELSE QLess(Q(0), r) /\ QMul(r, r) = squared

IsArc(el, s, t) ==
    /\ doc.tagOf[el] = "path"
    /\ "d" \in DOMAIN doc.attrOf[el]
    /\ LET d == doc.attrOf[el]["d"][2]
       IN /\ d.mx = s[1] /\ d.my = s[2] /\ d.x = t[1] /\ d.y = t[2]
          /\ d.rx = d.ry
          /\ IsArcRadius(d.rx, s, t)
          /\ d.large_arc = 0 /\ d.sweep = 1

IsLine(el, s, t) ==
    /\ doc.tagOf[el] = "line"
    /\ {"x1", "y1", "x2", "y2"} \subseteq DOMAIN doc.attrOf[el]
    /\ doc.attrOf[el]["x1"] = Num(s[1]) /\ doc.attrOf[el]["y1"] = Num(s[2])
    /\ doc.attrOf[el]["x2"] = Num(t[1]) /\ doc.attrOf[el]["y2"] = Num(t[2])

GephiEdge(j) ==
    /\ args.directed_curves /\ graph.directed
    /\ args.directed_curve_factor = Q(2)
    /\ EdgeSource(j) = <<Q(0), Q(0)>> /\ EdgeTarget(j) = <<Q(100), Q(0)>>

\* C11: in a directed graph drawn with directed_curves, an edge from (0, 0)
\* to (100, 0) with directed_curve_factor 2.0 is an arc of radius 50.0.
C11_GephiRadius ==
    (Constructed /\ net.status = "ok") =>
        \A j \in 1..Len(net.edges) :
            GephiEdge(j) =>
                /\ doc.tagOf[net.edges[j]] = "path"
                /\ doc.attrOf[net.edges[j]]["d"][2].rx = Q(50)

(***************************************************************************)
(* The curve radius override: claim C12.                                   *)
(* NetworkSVG.use_edge_attribute_for_curve_radius is called by the tests   *)
(* and the examples and is not part of the package source; it is modelled  *)
(* from the specification: the named edge attribute supplies the radius    *)
(* of the edge's arc directly, and an edge without it keeps the radius of  *)
(* _directed_arc_path.                                                     *)
(***************************************************************************)
\* the arc of edge j with the radius the edge attribute attr_name supplies
arc_path_with_radius(g, factor, attr_name, j, s, t) ==
    IF attr_lookup(g.eattr, j, <<attr_name>>, None) = None
       \/ attr_lookup(g.eattr, j, <<attr_name>>, None)[1][1] # "num"
    THEN directed_arc_path(factor, s, t)
    ELSE <<"path", [directed_arc_path(factor, s, t)[2] EXCEPT
                       !.rx = Fmt3(as_float(attr_lookup(g.eattr, j, <<attr_name>>, None), Q(1))),
                       !.ry = Fmt3(as_float(attr_lookup(g.eattr, j, <<attr_name>>, None), Q(1)))]>>

\* every arc of the edge layer drawn again, edges k..Len(edges)
RECURSIVE redraw_arcs(_, _, _, _, _, _, _)
redraw_arcs(d, g, factor, attr_name, edges, positions, k) ==
    IF k > Len(edges) THEN d
    ELSE IF d.tagOf[edges[k]] # "path"
    THEN redraw_arcs(d, g, factor, attr_name, edges, positions, k + 1)
    ELSE redraw_arcs(
            [d EXCEPT !.attrOf[edges[k]] =
                SetAttr(@, "d", arc_path_with_radius(g, factor, attr_name, k - 1,
                                    positions[g.edges[k][1] + 1][1],
                                    positions[g.edges[k][2] + 1][1]))],
            g, factor, attr_name, edges, positions, k + 1)

\* net.use_edge_attribute_for_curve_radius(attr_name)
UseEdgeAttributeForCurveRadius(attr_name) ==
    /\ net.status = "ok"
    /\ net.curve_radius_attr # Some(attr_name)
    /\ net' = [net EXCEPT !.curve_radius_attr = Some(attr_name)]
    /\ doc' = redraw_arcs(doc, graph, args.directed_curve_factor, attr_name,
                          net.edges, net.positions, 1)
    /\ lastOp' = "use_edge_attribute_for_curve_radius"
    /\ UNCHANGED <<exported, ordinal>>
    /\ outcome' = "ok"
    /\ UNCHANGED <<binding, selection, calls, graph, args>>

\* the endpoints of test_directed_curve_radius_can_use_edge_attribute, and
\* a third vertex
CurvePositions == <<Pair(0, 0), Pair(80, 30), Pair(3, 4)>>

RadiusAttrNames == {"CurveRadius", "R"}

RadiusValues == {None, Some(<<"num", 120>>), Some(<<"num", 7>>)}

CurveGraphs ==
    UNION {
        {[EmptyGraph(v) EXCEPT
            !.directed = directed,
            !.edges = ChainEdges(v, back),
            !.vattr = [n \in {"Position"} |-> SubSeq(CurvePositions, 1, v)],
            !.eattr = ea] :
            directed \in BOOLEAN,
            ea \in [RadiusAttrNames -> [1..Len(ChainEdges(v, back)) -> RadiusValues]]} :
        v \in 2..MaxV, back \in BOOLEAN}

InitCurve ==
    \E g \in CurveGraphs : \E curves \in BOOLEAN :
        InitNet(g, [DefaultArgs EXCEPT !.directed_curves = curves])

NextCurve ==
    \/ Construct
    \/ \E attr_name \in RadiusAttrNames : UseEdgeAttributeForCurveRadius(attr_name)

SpecCurve == InitCurve /\ [][NextCurve]_vars

\* edge j (1-based) carries the attribute the renderer reads the radius from
CarriesRadius(j) ==
    /\ net.curve_radius_attr # None
    /\ net.curve_radius_attr[1] \in DOMAIN graph.eattr
    /\ graph.eattr[net.curve_radius_attr[1]][j] # None

average_channel(a, b) == (a + b + 1) \div 2

\* "#%02x%02x%02x" of three components
hex_of(r, g, b) ==
    Some(<<"hex", <<r \div 16, r % 16, g \div 16, g % 16, b \div 16, b % 16>>>>)

\* the per-channel midpoint of two colours; the first colour when either is
\* no hex colour
average_color(c1, c2) ==
    IF hex_components(c1) = None \/ hex_components(c2) = None THEN c1
    ELSE hex_of(average_channel(hex_components(c1)[1][1], hex_components(c2)[1][1]),
                average_channel(hex_components(c1)[1][2], hex_components(c2)[1][2]),
                average_channel(hex_components(c1)[1][3], hex_components(c2)[1][3]))

\* the stroke of every edge set to the average of its endpoints' colours
RECURSIVE average_strokes(_, _, _, _)
average_strokes(d, g, edges, k) ==
    IF k > Len(edges) THEN d
    ELSE average_strokes(
            [d EXCEPT !.attrOf[edges[k]] =
                SetAttr(@, "stroke",
                        average_color(node_fill(g, g.edges[k][1]),
                                      node_fill(g, g.edges[k][2]))[1])],
            g, edges, k + 1)

\* net.enable_edge_average_color()
EnableEdgeAverageColor ==
    /\ net.status = "ok"
    /\ net.edge_color_mode # "average"
    /\ net' = [net EXCEPT !.edge_color_mode = "average"]
    /\ doc' = average_strokes(doc, graph, net.edges, 1)
    /\ lastOp' = "enable_edge_average_color"
    /\ UNCHANGED <<exported, ordinal>>
    /\ outcome' = "ok"
    /\ UNCHANGED <<binding, selection, calls, graph, args>>

\* the two stops of the gradient element grad, and the edge's stroke
gradient_stops(d, grad, edge, n, c1, c2) ==
    [AppendChild(
        AppendChild(d, grad, "stop",
            << <<<<"offset">>, Str("0%")>>, <<<<"stop", "color">>, c1[1]>> >>),
        grad, "stop",
        << <<<<"offset">>, Str("100%")>>, <<<<"stop", "color">>, c2[1]>> >>)
     EXCEPT !.attrOf[edge] = SetAttr(@, "stroke", <<"url", <<"edge-gradient", n>>>>)]

\* the linear gradient of one edge from s to t, appended to the defs element
edge_gradient(d, defs, edge, n, s, t, c1, c2) ==
    gradient_stops(
        AppendChild(d, defs, "linearGradient",
            << <<<<"id">>, <<"id", <<"edge-gradient", n>>>>>>,
               <<<<"gradientUnits">>, Str("userSpaceOnUse")>>,
               <<<<"x1">>, Num(s[1])>>, <<<<"y1">>, Num(s[2])>>,
               <<<<"x2">>, Num(t[1])>>, <<<<"y2">>, Num(t[2])>> >>),
        Len(d.tagOf) + 1, edge, n, c1, c2)

\* one gradient per edge, edges k..Len(edges)
RECURSIVE edge_gradients(_, _, _, _, _, _)
edge_gradients(d, defs, g, edges, positions, k) ==
    IF k > Len(edges) THEN d
    ELSE edge_gradients(
            edge_gradient(d, defs, edges[k], k - 1,
                          positions[g.edges[k][1] + 1][1], positions[g.edges[k][2] + 1][1],
                          node_fill(g, g.edges[k][1]), node_fill(g, g.edges[k][2])),
            defs, g, edges, positions, k + 1)

\* net.enable_edge_color_gradient(): the gradients go to a defs element
EnableEdgeColorGradient ==
    /\ net.status = "ok"
    /\ net.edge_color_mode # "gradient"
    /\ \A e \in 1..Len(doc.tagOf) : doc.tagOf[e] # "defs"
    /\ net' = [net EXCEPT !.edge_color_mode = "gradient"]
    /\ doc' = edge_gradients(AppendChild(doc, Root, "defs", <<>>), Len(doc.tagOf) + 1,
                             graph, net.edges, net.positions, 1)
    /\ lastOp' = "enable_edge_color_gradient"
    /\ UNCHANGED <<exported, ordinal>>
    /\ outcome' = "ok"
    /\ UNCHANGED <<binding, selection, calls, graph, args>>

\* the vertex colours of the tests, a three-digit colour and no colour
ColorValues ==
    {None, Black, White,
     Some(<<"hex", <<0, 0, 15, 15, 0, 0>>>>),
     Some(<<"hex", <<1, 2, 3>>>>)}

ColorGraphs ==
    UNION {
        {[EmptyGraph(v) EXCEPT
            !.edges = ChainEdges(v, back),
            !.vattr = [n \in {"Position", "Color"} |->
                          IF n = "Position" THEN [i \in 1..v |-> Pair(50 * (i - 1), 0)]
                          ELSE colors]] :
            colors \in [1..v -> ColorValues]} :
        v \in 2..MaxV, back \in BOOLEAN}

InitColor == \E g \in ColorGraphs : InitNet(g, DefaultArgs)

NextColor ==
    \/ Construct
    \/ EnableEdgeAverageColor
    \/ EnableEdgeColorGradient

SpecColor == InitColor /\ [][NextColor]_vars

\* the six-digit components of vertex i's colour attribute, or of the
\* default fill
VertexChannels(i) ==
    IF graph.vattr["Color"][i + 1] = None THEN <<76, 120, 168>>
    ELSE IF Len(graph.vattr["Color"][i + 1][1][2]) = 3
    THEN [c \in 1..3 |-> 17 * graph.vattr["Color"][i + 1][1][2][c]]
    ELSE [c \in 1..3 |-> 16 * graph.vattr["Color"][i + 1][1][2][2 * c - 1]
                            + graph.vattr["Color"][i + 1][1][2][2 * c]]

\* the components of a "#rrggbb" attribute value
StrokeChannels(value) ==
    [c \in 1..3 |-> 16 * value[2][2 * c - 1] + value[2][2 * c]]

\* m is the midpoint of a and b rounded to a whole number
RoundedMidpoint(m, a, b) == 2 * m - (a + b) \in {-1, 0, 1}

Gradients ==
    {e \in 1..Len(doc.tagOf) :
        doc.tagOf[e] = "linearGradient" /\ \E k \in 1..Len(DocOrder(doc, Root)) :
                                               DocOrder(doc, Root)[k] = e}

\* the "#rrggbb" or "#rgb" colour of vertex i as an attribute value
VertexColor(i) ==
    IF graph.vattr["Color"][i + 1] = None THEN DefaultNodeFill[1]
    ELSE graph.vattr["Color"][i + 1][1]

\* gradient element e runs from the colour of edge j's source to the colour
\* of its target in exactly two stops
TwoStops(e, j) ==
    /\ Len(doc.kids[e]) = 2
    /\ \A k \in 1..2 : doc.tagOf[doc.kids[e][k]] = "stop"
    /\ GetAttr(doc, doc.kids[e][1], "stop-color") = Some(VertexColor(graph.edges[j][1]))
    /\ GetAttr(doc, doc.kids[e][2], "stop-color") = Some(VertexColor(graph.edges[j][2]))

has_class(cls, tok) ==
    \E k \in 1..(Len(cls) + 2 - (Len(tok) + 1)) :
        SubSeq(" " \o cls \o " ", k, k + Len(tok) + 1) = " " \o tok \o " "

\* root.xpath(".//svg:g[...' label '...]"): the label groups in document order
label_groups(d) ==
    LET IsLabelGroup(e) ==
            /\ e # Root
            /\ d.tagOf[e] = "g"
            /\ "class" \in DOMAIN d.attrOf[e]
            /\ d.attrOf[e]["class"][1] = "str"
            /\ has_class(d.attrOf[e]["class"][2], "label")
    IN SelectSeq(DocOrder(d, Root), IsLabelGroup)

\* "not stroke": the attribute is missing or the empty string
no_stroke(value) == value = None \/ value[1] = Str("") \/ value[1][1] = "empty"

\* float(stroke_width): a number, or None for ValueError
float_of(tok) ==
    CASE tok[1] = "num" -> Some(tok[2])
      [] tok[1] = "int" -> Some(Q(tok[2]))
      [] tok[1] = "str" /\ tok[2] \in {"0", "0.0", "-0"} -> Some(Q(0))
      [] tok[1] = "str" /\ tok[2] = "4" -> Some(Q(4))
      [] OTHER -> None

\* the two "continue" branches of the loop over the text nodes
text_skipped(d, text) ==
    \/ no_stroke(GetAttr(d, text, "stroke"))
    \/ /\ GetAttr(d, text, "stroke-width") # None
       /\ float_of(GetAttr(d, text, "stroke-width")[1]) = Some(Q(0))

\* attr.startswith("stroke")
starts_with_stroke(name) == Len(name) >= 6 /\ SubSeq(name, 1, 6) = "stroke"

\* copy.deepcopy(el): a copy of el's subtree at the end of the node table;
\* the copy of el becomes the last child of parent, or stays detached when
\* parent is 0
RECURSIVE deepcopy(_, _, _)
RECURSIVE deepcopy_kids(_, _, _)
deepcopy(d, el, parent) ==
    deepcopy_kids(
        [tagOf  |-> Append(d.tagOf, d.tagOf[el]),
         kids   |-> Append(IF parent = 0 THEN d.kids
                           ELSE [d.kids EXCEPT ![parent] = Append(@, Len(d.tagOf) + 1)],
                           <<>>),
         attrOf |-> Append(d.attrOf, d.attrOf[el]),
         textOf |-> Append(d.textOf, d.textOf[el])],
        d.kids[el], Len(d.tagOf) + 1)

deepcopy_kids(d, ks, parent) ==
    IF ks = <<>> THEN d
    ELSE deepcopy_kids(deepcopy(d, Head(ks), parent), Tail(ks), parent)

\* the attributes without the names in gone
without_attrs(attrs, gone) == [a \in (DOMAIN attrs) \ gone |-> attrs[a]]

\* An insert that puts the copy behind the original.
insert_after(ks, text, bg) ==
    LET at == CHOOSE k \in 1..Len(ks) : ks[k] = text /\ \A m \in 1..(k - 1) : ks[m] # text
    IN SubSeq(ks, 1, at) \o <<bg>> \o SubSeq(ks, at + 1, Len(ks))

\* group.insert(group.index(text), bg)
insert_before(ks, text, bg) ==
    LET at == CHOOSE k \in 1..Len(ks) : ks[k] = text /\ \A m \in 1..(k - 1) : ks[m] # text
    IN SubSeq(ks, 1, at - 1) \o <<bg>> \o SubSeq(ks, at, Len(ks))

\* the body of the loop for one stroked text node; d holds the detached
\* copy bg of text
split_stroke(d, group, text, bg) ==
    [d EXCEPT
        !.attrOf[bg] = without_attrs(SetAttr(@, "fill", Str("none")), {"paint-order"}),
        !.attrOf[text] = without_attrs(@, {a \in DOMAIN @ : starts_with_stroke(a)}
                                          \cup {"paint-order"}),
        !.kids[group] = insert_before(@, text, bg)]

\* for text in texts
RECURSIVE prepare_texts(_, _, _)
prepare_texts(d, group, texts) ==
    IF texts = <<>> THEN d
    ELSE IF text_skipped(d, Head(texts)) THEN prepare_texts(d, group, Tail(texts))
    ELSE prepare_texts(split_stroke(deepcopy(d, Head(texts), 0), group, Head(texts),
                                    Len(d.tagOf) + 1),
                       group, Tail(texts))

\* for group in label_groups
RECURSIVE prepare_groups(_, _)
prepare_groups(d, groups) ==
    IF groups = <<>> THEN d
    ELSE prepare_groups(
            prepare_texts(d, Head(groups), SelectSeqTag(d, d.kids[Head(groups)], "text")),
            Tail(groups))

\* _prepare_label_strokes_for_illustrator(root)
prepare_label_strokes_for_illustrator(d) == prepare_groups(d, label_groups(d))

\* NetworkSVG._export_root: the live tree, or a transformed deep copy of it
export_root(d, illustrator_safe) ==
    IF ~illustrator_safe THEN d ELSE prepare_label_strokes_for_illustrator(d)

\* An export that transforms self.svg.root itself.
live_root_transformed(d, illustrator_safe) == export_root(d, illustrator_safe)

\* self.svg.root after _export_root: the transform ran on
\* copy.deepcopy(self.svg.root), which shares no node with the live tree
live_root(d, illustrator_safe) == d

\* net.to_string(illustrator_safe=...)
to_string(illustrator_safe) ==
    /\ net.status = "ok"
    /\ exported' = Some(export_root(doc, illustrator_safe))
    /\ doc' = live_root(doc, illustrator_safe)
    /\ lastOp' = IF illustrator_safe THEN "to_string" ELSE "to_string(illustrator_safe=False)"
    /\ outcome' = "ok"
    /\ UNCHANGED <<binding, selection, calls, graph, args, net, ordinal>>

\* net.save(path, illustrator_safe=...): to_string, written to the file
save(illustrator_safe) ==
    /\ net.status = "ok"
    /\ exported' = Some(export_root(doc, illustrator_safe))
    /\ doc' = live_root(doc, illustrator_safe)
    /\ lastOp' = IF illustrator_safe THEN "save" ELSE "save(illustrator_safe=False)"
    /\ outcome' = "ok"
    /\ UNCHANGED <<binding, selection, calls, graph, args, net, ordinal>>

\* the attribute name = tok on every element of els
RECURSIVE set_token(_, _, _, _)
set_token(d, els, name, tok) ==
    IF els = <<>> THEN d
    ELSE set_token([d EXCEPT !.attrOf[Head(els)] = SetAttr(@, normalize_attr_name(name), tok)],
                   Tail(els), name, tok)

\* net.labels.select_all("text").attr(name, value) with a string value
LabelTextAttr(name, value) ==
    /\ net.status = "ok"
    /\ doc' = set_token(doc, Selection_select_all(doc, binding, net.labels, "text").found,
                        name, Str(value))
    /\ binding' = Selection_select_all(doc, binding, net.labels, "text").binding
    /\ lastOp' = "attr"
    /\ outcome' = "ok"
    /\ UNCHANGED <<selection, calls, graph, args, net, exported, ordinal>>

\* net.labels.append("text"): a second, unstyled text node in every label
LabelAppendText ==
    /\ net.status = "ok"
    /\ \A k \in 1..Len(net.labels) : Len(doc.kids[net.labels[k]]) < 2
    /\ doc' = Selection_append(doc, net.labels, "text", <<>>).doc
    /\ lastOp' = "append"
    /\ outcome' = "ok"
    /\ UNCHANGED <<binding, selection, calls, graph, args, net, exported, ordinal>>

OutlineValues == {None, Some(<<"num", 0>>), Some(<<"num", 2>>)}

\* labelled vertices with their label outline widths
ExportGraphs ==
    UNION {
        {[EmptyGraph(v) EXCEPT
            !.vattr = [n \in {"Position", "Label", "LabelOutline"} |->
                          IF n = "Position" THEN [i \in 1..v |-> Pair(40 * (i - 1), 20)]
                          ELSE IF n = "Label" THEN [i \in 1..v |-> Some(<<"str", "L">>)]
                          ELSE outlines]] :
            outlines \in [1..v -> OutlineValues]} :
        v \in 1..MaxV}

\* the attribute values the runs write on the label text nodes; a name is
\* given by its parts, stroke_width as <<"stroke", "width">>
TextAttrValues ==
    {<<<<"stroke">>, "">>, <<<<"stroke">>, "none">>, <<<<"stroke", "width">>, "0">>,
     <<<<"stroke", "width">>, "abc">>}

InitExport == \E g \in ExportGraphs : InitNet(g, DefaultArgs)

NextExport ==
    \/ Construct
    \/ \E kv \in TextAttrValues : LabelTextAttr(kv[1], kv[2])
    \/ LabelAppendText
    \/ \E illustrator_safe \in BOOLEAN : to_string(illustrator_safe)
    \/ \E illustrator_safe \in BOOLEAN : save(illustrator_safe)

SpecExport == InitExport /\ [][NextExport]_vars

\* the text nodes among the children of group g in the tree d
TextsOf(d, g) == SelectSeqTag(d, d.kids[g], "text")

\* text node t carries a stroke whose width is not zero
Stroked(d, t) ==
    /\ "stroke" \in DOMAIN d.attrOf[t]
    /\ d.attrOf[t]["stroke"] # Str("")
    /\ \/ "stroke-width" \notin DOMAIN d.attrOf[t]
       \/ /\ float_of(d.attrOf[t]["stroke-width"]) # None
          /\ float_of(d.attrOf[t]["stroke-width"]) # Some(Q(0))

\* text node t carries no stroke, or a stroke of width zero
Unstroked(d, t) ==
    \/ "stroke" \notin DOMAIN d.attrOf[t]
    \/ d.attrOf[t]["stroke"] = Str("")
    \/ /\ "stroke-width" \in DOMAIN d.attrOf[t]
       /\ float_of(d.attrOf[t]["stroke-width"]) = Some(Q(0))

\* in the exported tree x the children k and k + 1 of group g are a new
\* stroke-only copy of text node t of the live tree d, and t without strokes
SplitAt(d, x, g, t, k) ==
    /\ x.kids[g][k] > Len(d.tagOf) /\ x.tagOf[x.kids[g][k]] = "text"
    /\ x.kids[g][k + 1] = t
    /\ GetAttr(x, x.kids[g][k], "fill") = Some(Str("none"))
    /\ \A a \in DOMAIN d.attrOf[t] :
          starts_with_stroke(a) =>
              GetAttr(x, x.kids[g][k], a) = Some(d.attrOf[t][a])
    /\ \A a \in DOMAIN x.attrOf[t] : ~starts_with_stroke(a)

\* C15: in the illustrator-safe export every label group whose source held
\* exactly one text node, with a stroke of nonzero width, holds exactly two
\* text nodes: a duplicate with fill = none that keeps the stroke
\* attributes, immediately followed by the original without any attribute
\* whose name starts with "stroke"; a text node with no stroke or with
\* stroke width 0 is never duplicated.
C15_IllustratorSafeLabels ==
    lastOp = "to_string" =>
        \A i \in 1..Len(label_groups(doc)) :
            LET g == label_groups(doc)[i]
                x == exported[1]
            IN /\ (Len(TextsOf(doc, g)) = 1 /\ Stroked(doc, TextsOf(doc, g)[1])) =>
                      /\ Len(TextsOf(x, g)) = 2
                      /\ \E k \in 1..(Len(x.kids[g]) - 1) :
                            SplitAt(doc, x, g, TextsOf(doc, g)[1], k)
               /\ \A m \in 1..Len(TextsOf(doc, g)) :
                      Unstroked(doc, TextsOf(doc, g)[m]) =>
                          /\ x.attrOf[TextsOf(doc, g)[m]] = doc.attrOf[TextsOf(doc, g)[m]]
                          /\ \A k \in 1..Len(x.kids[g]) :
                                x.kids[g][k] > Len(doc.tagOf) =>
                                    x.attrOf[x.kids[g][k]]
                                        # SetAttr(doc.attrOf[TextsOf(doc, g)[m]], "fill",
                                                  Str("none"))

\* an export in which one label's stroked text was split in two and another
\* label's text, of stroke width 0, was left alone
C15_Witness ==
    /\ lastOp = "to_string"
    /\ \E i, j \in 1..Len(net.labels) :
          /\ Len(TextsOf(doc, net.labels[i])) = 1
          /\ Stroked(doc, TextsOf(doc, net.labels[i])[1])
          /\ Len(TextsOf(exported[1], net.labels[i])) = 2
          /\ Len(TextsOf(doc, net.labels[j])) = 1
          /\ Unstroked(doc, TextsOf(doc, net.labels[j])[1])
          /\ Len(TextsOf(exported[1], net.labels[j])) = 1

(***************************************************************************)
(* Text styling: NetworkSVG.set_text_style.  The properties of a call are  *)
(* a sequence of <<name parts, value>>, the value None or Some(string).    *)
(***************************************************************************)
MaxStyleCalls == 2      \* set_text_style is called while the tree holds at most this many style elements

\* "; ".join(f"{_normalize_attr_name(k)}: {v}" for k, v in ... if v is not None)
RECURSIVE declarations(_)
declarations(properties) ==
    IF properties = <<>> THEN <<>>
    ELSE IF Head(properties)[2] = None THEN declarations(Tail(properties))
    ELSE << <<normalize_attr_name(Head(properties)[1]), Head(properties)[2][1]>> >>
         \o declarations(Tail(properties))

\* NetworkSVG.set_text_style: the tree after the call; the style element's
\* text is the rule f"{selector} {{{declarations};}}"
set_text_style(d, selector, properties) ==
    IF properties = <<>> \/ declarations(properties) = <<>> THEN d
    ELSE add_style(d, <<"rule", selector, declarations(properties)>>)

StyleElements == {e \in 1..Len(doc.tagOf) : doc.tagOf[e] = "style"}

\* net.set_text_style(selector, **properties)
SetTextStyle(selector, properties) ==
    /\ net.status = "ok"
    /\ Cardinality(StyleElements) <= MaxStyleCalls
    /\ doc' = set_text_style(doc, selector, properties)
    /\ lastOp' = "set_text_style"
    /\ outcome' = IF doc' = doc THEN "None" ELSE "ok"
    /\ UNCHANGED <<binding, selection, calls, graph, args, net, exported, ordinal>>

\* the selectors and properties of the set_text_style tests, a property that
\* is None and a call without properties
StyleSelectors == {".label text", ".label tspan"}

StyleProperties ==
    {<<>>,
     << <<<<"font", "size">>, Some("12px")>> >>,
     << <<<<"fill">>, Some("#333")>> >>,
     << <<<<"font", "weight">>, None>> >>,
     << <<<<"font", "weight">>, Some("600")>>, <<<<"fill">>, None>> >>}

InitStyle ==
    \E v \in 0..MaxV : \E family \in {DefaultFontFamily, None, Some("")} :
        InitNet([EmptyGraph(v) EXCEPT
                    !.vattr = [n \in {"Position"} |-> [i \in 1..v |-> Pair(0, 0)]]],
                [DefaultArgs EXCEPT !.label_font_family = family])

NextStyle ==
    \/ Construct
    \/ \E selector \in StyleSelectors : \E properties \in StyleProperties :
          SetTextStyle(selector, properties)

SpecStyle == InitStyle /\ [][NextStyle]_vars

\* the style elements of the root that carry the text-style role
TextStyleBlocks ==
    {e \in StyleElements :
        /\ \E k \in 1..Len(doc.kids[Root]) : doc.kids[Root][k] = e
        /\ GetAttr(doc, e, "data-networksvg-role") = Some(Str("text-style"))}

\* the rules set_text_style wrote, as <<style element, selector>>
TextStyleRules ==
    {<<e, doc.textOf[e][1][2]>> : e \in {x \in StyleElements :
                                           /\ doc.textOf[x] # None
                                           /\ doc.textOf[x][1][1] = "rule"}}

\* C16: after set_text_style calls the root holds exactly one style element
\* with data-networksvg-role = text-style, and a selector has one rule:
\* calls with the same selector merge their declarations into it.
C16_SingleTextStyleBlock ==
    (lastOp = "set_text_style" /\ outcome = "ok") =>
        /\ Cardinality(TextStyleBlocks) = 1
        /\ \A r1, r2 \in TextStyleRules : r1[2] = r2[2] => r1 = r2

(***************************************************************************)
(* Export leaves the live tree alone: claim C21.                           *)
(***************************************************************************)
SafeExports == {"to_string", "save"}

PlainExports == {"to_string(illustrator_safe=False)", "save(illustrator_safe=False)"}

LabelFillValues ==
    {None, Some(<<"hex", <<15, 0, 0>>>>), Some(<<"word", 0>>), Some(<<"empty", 0>>)}

\* the names the colour and the label go by; "" stands for a graph that has
\* no colour attribute at all
LabelFillKeys == {"Color", "color", "fill", ""} \X {"Label", "name"}

LabelFillGraph(v, keys, colors) ==
    [EmptyGraph(v) EXCEPT
        !.vattr = [n \in {"Position", keys[2]} \cup ({keys[1]} \ {""}) |->
                      IF n = "Position" THEN [i \in 1..v |-> Pair(40 * (i - 1), 20)]
                      ELSE IF n = keys[2] THEN [i \in 1..v |-> Some(<<"str", "L">>)]
                      ELSE colors]]

LabelFillGraphs ==
    UNION {{LabelFillGraph(v, keys, colors) :
               keys \in LabelFillKeys, colors \in [1..v -> LabelFillValues]} :
           v \in 1..MaxV}

InitLabelFill == \E g \in LabelFillGraphs : InitNet(g, DefaultArgs)

SpecLabelFill == InitLabelFill /\ [][NextNet]_vars

\* the colour attribute of vertex i (0-based), or None
VertexFillAttr(i) ==
    IF \E n \in {"Color", "color", "fill"} \cap DOMAIN graph.vattr : graph.vattr[n][i + 1] # None
    THEN graph.vattr[CHOOSE n \in {"Color", "color", "fill"} \cap DOMAIN graph.vattr :
                        graph.vattr[n][i + 1] # None][i + 1]
    ELSE None

\* the fill attribute of the text node of label k
LabelTextFill(k) == GetAttr(doc, TextsOf(doc, net.labels[k])[1], "fill")

\* the vertex (0-based) label k is bound to
LabelVertex(k) == get_data(binding, net.labels[k])[1][2]

\* C22: with the default label generator a label's text fill is #ffffff
\* when its vertex has an explicit colour attribute and #1a1a1a when the
\* vertex has no colour attribute.
C22_LabelTextFill ==
    (Constructed /\ net.status = "ok") =>
        \A k \in 1..Len(net.labels) :
            /\ (VertexFillAttr(LabelVertex(k)) # None
                /\ VertexFillAttr(LabelVertex(k))[1][1] # "empty")
                  => LabelTextFill(k) = Some(<<"hex", <<15, 15, 15, 15, 15, 15>>>>)
            /\ VertexFillAttr(LabelVertex(k)) = None
                  => LabelTextFill(k) = Some(<<"hex", <<1, 10, 1, 10, 1, 10>>>>)

(***************************************************************************)
(* OrdinalScale.  A value handed to the scale is <<kind, payload>>; the    *)
(* kinds "int" and "bool" compare equal on equal payloads, as 1 == True    *)
(* does, and every other pair of values is equal only to itself.           *)
(***************************************************************************)
\* x == y
py_eq(x, y) ==
    \/ x = y
    \/ x[1] \in {"int", "bool"} /\ y[1] \in {"int", "bool"} /\ x[2] = y[2]

\* value in values
py_in(value, values) == \E k \in 1..Len(values) : py_eq(values[k], value)

\* values.index(value), 0-based; value is in values
py_index(values, value) ==
    (CHOOSE k \in 1..Len(values) :
        py_eq(values[k], value) /\ \A m \in 1..(k - 1) : ~py_eq(values[m], value)) - 1

\* OrdinalScale.__init__: list(domain or []), list(range_ or [])
OrdinalScale_init(domain, range_) ==
    [domain |-> IF domain = None THEN <<>> ELSE domain[1],
     range  |-> IF range_ = None THEN <<>> ELSE range_[1],
     arg    |-> None, ret |-> None]

\* the domain after "if value not in self._domain: self._domain.append(value)"
grown_domain(domain, value) ==
    IF py_in(value, domain) THEN domain ELSE Append(domain, value)

\* A lookup that forgets to wrap around the range.
range_item_no_wrap(range_, idx) ==
    range_[(IF idx >= Len(range_) THEN Len(range_) - 1 ELSE idx) + 1]

\* self._range[self._domain.index(value) % len(self._range)]
range_item(range_, idx) == range_[(idx % Len(range_)) + 1]

\* OrdinalScale.__call__(value): [scale, status]
OrdinalScale_call(sc, value) ==
    IF sc.range = <<>>
    THEN [ordinal  |-> [sc EXCEPT !.domain = grown_domain(sc.domain, value),
                                !.arg = Some(value), !.ret = None],
          status |-> "ValueError"]
    ELSE [ordinal  |-> [sc EXCEPT !.domain = grown_domain(sc.domain, value),
                                !.arg = Some(value),
                                !.ret = Some(range_item(sc.range,
                                            py_index(grown_domain(sc.domain, value), value)))],
          status |-> "ok"]

ScaleValues == {<<"str", "a">>, <<"str", "b">>, <<"int", 1>>, <<"bool", 1>>}

ScaleColors == {"red", "green", "blue"}

MaxRange == 2      \* longest range, and longest initial domain, of a scale

\* scale = OrdinalScale(domain, range_)
InitScale ==
    /\ doc = NewDoc
    /\ binding = NoBinding
    /\ selection = <<>>
    /\ lastOp = "OrdinalScale"
    /\ exported = None
    /\ outcome = "ok"
    /\ calls = <<>>
    /\ NetIdle
    /\ \E domain \in {None} \cup {Some(d) : d \in UNION {[1..n -> ScaleValues] : n \in 0..MaxRange}} :
       \E range_ \in {None} \cup {Some(r) : r \in UNION {[1..n -> ScaleColors] : n \in 0..MaxRange}} :
          ordinal = OrdinalScale_init(domain, range_)

\* scale(value)
ScaleCall(value) ==
    /\ lastOp \in {"OrdinalScale", "OrdinalScale.__call__"}
    /\ ordinal' = OrdinalScale_call(ordinal, value).ordinal
    /\ outcome' = OrdinalScale_call(ordinal, value).status
    /\ lastOp' = "OrdinalScale.__call__"
    /\ UNCHANGED <<doc, binding, selection, calls, graph, args, net, exported>>

NextScale == \E value \in ScaleValues : ScaleCall(value)

SpecScale == InitScale /\ [][NextScale]_vars

\* C17: a call of an OrdinalScale with a non-empty range appends a value
\* that is not in the domain to the end of the domain, once, leaves the
\* domain alone for a value that is in it, and returns
\* range[p mod len(range)], p the value's position in the domain, so that a
\* value keeps its result on later calls; a call of a scale with an empty
\* range fails with an error.
C17_OrdinalScale ==
    [][lastOp' = "OrdinalScale.__call__" =>
          IF ordinal.range = <<>> THEN outcome' = "ValueError"
          ELSE /\ outcome' = "ok"
               /\ ordinal'.range = ordinal.range
               /\ IF \E k \in 1..Len(ordinal.domain) : py_eq(ordinal.domain[k], ordinal'.arg[1])
                  THEN ordinal'.domain = ordinal.domain
                  ELSE ordinal'.domain = ordinal.domain \o <<ordinal'.arg[1]>>
               /\ \E p \in 1..Len(ordinal'.domain) :
                     /\ py_eq(ordinal'.domain[p], ordinal'.arg[1])
                     /\ \A m \in 1..(p - 1) : ~py_eq(ordinal'.domain[m], ordinal'.arg[1])
                     /\ ordinal'.ret = Some(ordinal.range[((p - 1) % Len(ordinal.range)) + 1])
               /\ (ordinal.arg = ordinal'.arg /\ ordinal.ret # None) => ordinal'.ret = ordinal.ret
    ]_vars

\* a third value wrapped around a range of two, and called again
C17_Witness ==
    /\ lastOp = "OrdinalScale.__call__" /\ outcome = "ok"
    /\ Len(ordinal.range) = 2 /\ Len(ordinal.domain) = 3
    /\ ordinal.arg = Some(ordinal.domain[3])
    /\ ordinal.ret = Some(ordinal.range[1])
    /\ ordinal.range[1] # ordinal.range[2]

(***************************************************************************)
(* Edge colour and width of the default edge generator: claim C18.         *)
(***************************************************************************)
\* the colour, the two flags, the width and the weight one edge may carry
EdgeStyleOptions ==
    [color      : {None, Some(<<"hex", <<0, 15, 0>>>>), Some(<<"word", 0>>), Some(<<"empty", 0>>)},
     use_source : {None, Some(<<"bool", 1>>), Some(<<"bool", 0>>)},
     use_target : {None, Some(<<"yes", 0>>), Some(<<"text", 0>>)},
     width      : {None, Some(<<"num", 5>>), Some(<<"num", 0>>), Some(<<"text", 0>>)},
     weight     : {None, Some(<<"num", 1>>), Some(<<"num", 4>>)}]

\* the names the five attributes go by
EdgeStyleKeys ==
    {[color |-> "Color", use_source |-> "UseSourceColor", use_target |-> "UseTargetColor",
      width |-> "Width", weight |-> "weight"],
     [color |-> "stroke", use_source |-> "use_source_color", use_target |-> "use_target_color",
      width |-> "stroke_width", weight |-> "Weight"]}

SourceFills == {None, Some(<<"hex", <<15, 0, 0>>>>)}
TargetFills == {None, Some(<<"hex", <<0, 0, 15>>>>)}

\* one edge from vertex 0 to vertex 1
EdgeStyleGraph(directed, fills, keys, opt) ==
    [EmptyGraph(2) EXCEPT
        !.directed = directed,
        !.edges = << <<0, 1>> >>,
        !.vattr = [n \in {"Position", "Color"} |->
                      IF n = "Position" THEN <<Pair(0, 0), Pair(30, 40)>> ELSE fills],
        !.eattr = [n \in {keys.color, keys.use_source, keys.use_target, keys.width, keys.weight} |->
                      CASE n = keys.color      -> <<opt.color>>
                        [] n = keys.use_source -> <<opt.use_source>>
                        [] n = keys.use_target -> <<opt.use_target>>
                        [] n = keys.width      -> <<opt.width>>
                        [] n = keys.weight     -> <<opt.weight>>]]

EdgeStyleGraphs ==
    {EdgeStyleGraph(directed, <<sf, tf>>, keys, opt) :
        directed \in BOOLEAN, sf \in SourceFills, tf \in TargetFills,
        keys \in EdgeStyleKeys, opt \in EdgeStyleOptions}

InitEdge ==
    \E g \in EdgeStyleGraphs : \E curves \in BOOLEAN :
        InitNet(g, [DefaultArgs EXCEPT !.directed_curves = curves])

SpecEdge == InitEdge /\ [][NextNet]_vars

\* the value edge j carries under one of the names, or None
EdgeValue(j, names) ==
    IF \E n \in names \cap DOMAIN graph.eattr : graph.eattr[n][j] # None
    THEN graph.eattr[CHOOSE n \in names \cap DOMAIN graph.eattr : graph.eattr[n][j] # None][j]
    ELSE None

\* the fill colour of the node of vertex i (0-based): its colour attribute,
\* or the default fill
FillOfVertex(i) ==
    IF "Color" \in DOMAIN graph.vattr /\ graph.vattr["Color"][i + 1] # None
    THEN graph.vattr["Color"][i + 1][1]
    ELSE <<"hex", <<4, 12, 7, 8, 10, 8>>>>

\* a flag value that sets the flag
FlagSet(value) ==
    value \in {Some(<<"bool", 1>>), Some(<<"yes", 0>>), Some(<<"num", 1>>)}

\* the stroke the claim gives edge j: an explicit (non-empty) colour, else
\* the fill of the flagged endpoint, else #999999
ClaimedStroke(j, stroke) ==
    LET color      == EdgeValue(j, {"Color", "color", "stroke"})
        use_source == FlagSet(EdgeValue(j, {"UseSourceColor", "use_source_color"}))
        use_target == FlagSet(EdgeValue(j, {"UseTargetColor", "use_target_color"}))
    IN CASE color # None /\ color[1][1] # "empty" -> stroke = color[1]
         [] color = None /\ use_source /\ ~use_target ->
                stroke = FillOfVertex(graph.edges[j][1])
         [] color = None /\ use_target /\ ~use_source ->
                stroke = FillOfVertex(graph.edges[j][2])
         [] color = None /\ use_source /\ use_target ->
                stroke \in {FillOfVertex(graph.edges[j][1]), FillOfVertex(graph.edges[j][2])}
         [] color = None /\ ~use_source /\ ~use_target ->
                stroke = <<"hex", <<9, 9, 9, 9, 9, 9>>>>
         [] OTHER -> TRUE

\* the stroke width the claim gives edge j: an explicit numeric width, else
\* 1 + 0.5 * weight, else 1.0
ClaimedWidth(j, width) ==
    LET explicit == EdgeValue(j, {"Width", "width", "stroke_width"})
        weight   == EdgeValue(j, {"weight", "Weight"})
    IN CASE explicit # None /\ explicit[1][1] = "num" -> width = Num(Q(explicit[1][2]))
         [] explicit = None /\ weight # None /\ weight[1][1] = "num" ->
                width = Num(QAdd(Q(1), Frac(weight[1][2], 2)))
         [] explicit = None /\ weight = None -> width = Num(Q(1))
         [] OTHER -> TRUE

\* C18: with the default edge generator an edge's stroke is its explicit
\* colour attribute when present, otherwise the fill colour of the source
\* (target) node when its use-source-color (use-target-color) flag is set,
\* otherwise #999999; its stroke width is the explicit width attribute when
\* present, else 1 + 0.5 * weight when a weight is present, else 1.0.
C18_EdgeColorAndWidth ==
    (Constructed /\ net.status = "ok") =>
        \A j \in 1..Len(net.edges) :
            /\ ClaimedStroke(j, doc.attrOf[net.edges[j]]["stroke"])
            /\ ClaimedWidth(j, doc.attrOf[net.edges[j]]["stroke-width"])

\* an edge without a colour or a width whose target flag alone is set took
\* the blue of its target node and the width 1 + 0.5 * 1
C18_Witness ==
    /\ Constructed /\ net.status = "ok" /\ Len(net.edges) = 1
    /\ "UseTargetColor" \in DOMAIN graph.eattr
    /\ graph.eattr["Color"][1] = None
    /\ graph.eattr["UseSourceColor"][1] = Some(<<"bool", 0>>)
    /\ graph.eattr["UseTargetColor"][1] = Some(<<"yes", 0>>)
    /\ graph.eattr["Width"][1] = None
    /\ graph.eattr["weight"][1] = Some(<<"num", 1>>)
    /\ graph.vattr["Color"][1] # None
    /\ doc.attrOf[net.edges[1]]["stroke"] = <<"hex", <<0, 0, 15>>>>
    /\ doc.attrOf[net.edges[1]]["stroke-width"] = Num(Frac(3, 2))

(***************************************************************************)
(* Sorting.  The arguments of a sort call are [kind, name, reverse]: kind  *)
(* is "default" (no by, key or cmp), "by" (name is the attribute), "key"   *)
(* or "cmp" (name is the function passed).  The functions the runs pass:   *)
(*    KeyW:         lambda d: d["w"]                                       *)
(*    CmpIndexDesc: lambda a, b: b.index - a.index                         *)
(* Both raise when they are handed None.  The sort keys of the runs are    *)
(* numbers or None.                                                        *)
(***************************************************************************)
\* datum[name] for a vertex or an edge of the graph: [status, val]
datum_item(g, datum, name) ==
    LET attrs == IF datum[1][1] = "vertex" THEN g.vattr ELSE g.eattr
    IN IF name \in DOMAIN attrs
       THEN [status |-> "ok", val |-> attrs[name][datum[1][2] + 1]]
       ELSE [status |-> "KeyError", val |-> None]

\* the nested safe_attr of _sort_layer
safe_attr(g, datum, attr_name) ==
    IF datum = None THEN None
    ELSE LET item == datum_item(g, datum, attr_name)
         IN IF item.status = "ok" THEN item.val
            ELSE IF attr_name = "index" THEN Some(<<"num", datum[1][2]>>)
            ELSE None

\* the nested resolve of _sort_layer: [status, val], i is the 0-based
\* position of the element in the selection
resolve(g, datum, i, mode) ==
    IF mode.kind = "key"
    THEN IF datum = None THEN [status |-> "TypeError", val |-> None]
         ELSE datum_item(g, datum, "w")
    ELSE IF mode.kind = "by"
    THEN [status |-> "ok", val |-> safe_attr(g, datum, mode.name)]
    ELSE [status |-> "ok",
          val |-> IF datum = None THEN Some(<<"num", i>>) ELSE Some(<<"num", datum[1][2]>>)]

\* A sort key that takes a missing value for the number 0.
sort_key_absent_as_zero(value) ==
    [none |-> FALSE, v |-> IF value = None THEN 0 ELSE value[1][2]]

\* the nested sort_key of _sort_layer: (value is None, value)
sort_key(value) ==
    [none |-> value = None, v |-> IF value = None THEN 0 ELSE value[1][2]]

\* the order of two sort keys, as Python orders the tuples
KeyLess(k1, k2) ==
    \/ ~k1.none /\ k2.none
    \/ ~k1.none /\ ~k2.none /\ k1.v < k2.v

\* list.sort(key=..., reverse=...) on indices: stable, and stable in reverse
\* too; keys[i] is the key of index i - 1.  The result lists the indices.
stable_sort(keys, reverse) ==
    LET n == Len(keys)
        before(i, j) == IF reverse THEN KeyLess(keys[j], keys[i]) ELSE KeyLess(keys[i], keys[j])
        tied(i, j)   == ~before(i, j) /\ ~before(j, i)
        rank(i) == Cardinality({j \in 1..n : before(j, i) \/ (tied(i, j) /\ j < i)})
    IN [p \in 1..n |-> CHOOSE i \in 1..n : rank(i) = p - 1]

\* An append that leaves an element of the tree where it is.
MoveToEnd_in_place(d, parent, el) == d

\* parent.append(el) for an element already in the tree: el becomes the last
\* child of parent
MoveToEnd(d, parent, el) ==
    [d EXCEPT !.kids = [q \in 1..Len(d.kids) |->
                          LET rest == SelectSeq(d.kids[q], LAMBDA c : c # el)
                          IN IF q = parent THEN Append(rest, el) ELSE rest]]

RECURSIVE MoveAllToEnd(_, _, _)
MoveAllToEnd(d, parent, els) ==
    IF els = <<>> THEN d
    ELSE MoveAllToEnd(MoveToEnd(d, parent, Head(els)), parent, Tail(els))

\* A sort that leaves out the elements that have no bound datum.
sort_layer_drop_unbound(g, d, b, elements, parent, mode) ==
    LET bound == SelectSeq(elements, LAMBDA el : get_data(b, el) # None)
    IN [status |-> "ok", doc |-> MoveAllToEnd(d, parent, bound), els |-> bound]

\* NetworkSVG._sort_layer: [status, doc, els]
sort_layer(g, d, b, elements, parent, mode) ==
    IF elements = <<>> THEN [status |-> "ok", doc |-> d, els |-> elements]
    ELSE
    LET n == Len(elements)
        data_items == [i \in 1..n |-> get_data(b, elements[i])]
        values == [i \in 1..n |-> resolve(g, data_items[i], i - 1, mode)]
        raised == IF mode.kind = "cmp"
                  THEN IF n >= 2 /\ \E i \in 1..n : data_items[i] = None
                       THEN {"AttributeError"} ELSE {}
                  ELSE {values[i].status : i \in 1..n} \ {"ok"}
    IN IF raised # {}
       THEN [status |-> CHOOSE e \in raised : TRUE, doc |-> d, els |-> elements]
       ELSE
       LET keys == IF mode.kind = "cmp"
                   THEN [i \in 1..n |-> [none |-> FALSE,
                                         v |-> IF data_items[i] = None THEN 0
                                               ELSE 0 - data_items[i][1][2]]]
                   ELSE [i \in 1..n |-> sort_key(values[i].val)]
           indices == stable_sort(keys, mode.reverse)
           sorted_elements == [p \in 1..n |-> elements[indices[p]]]
       IN [status |-> "ok", doc |-> MoveAllToEnd(d, parent, sorted_elements),
           els |-> sorted_elements]

MaxSortV   == 4     \* vertices of the graphs whose layers are sorted

SortModes ==
    {[kind |-> k[1], name |-> k[2], reverse |-> r] :
        k \in {<<"default", "">>, <<"by", "w">>, <<"by", "index">>, <<"by", "zz">>,
               <<"key", "KeyW">>, <<"cmp", "CmpIndexDesc">>},
        r \in BOOLEAN}

\* the selection is in the order its elements were created in
InBuildOrder(els) == \A i, j \in 1..Len(els) : i < j => els[i] < els[j]

\* sort_nodes / sort_edges / sort_labels(by, key, cmp, reverse); the runs
\* re-sort one layer while the other two are in the order they were built in
Sort(layer, mode) ==
    /\ net.status = "ok"
    /\ layer # "nodes" => InBuildOrder(net.nodes)
    /\ layer # "edges" => InBuildOrder(net.edges)
    /\ layer # "labels" => InBuildOrder(net.labels)
    /\ LET r == sort_layer(graph, doc, binding,
                           IF layer = "nodes" THEN net.nodes
                           ELSE IF layer = "edges" THEN net.edges ELSE net.labels,
                           IF layer = "nodes" THEN net.node_layer
                           ELSE IF layer = "edges" THEN net.edge_layer ELSE net.label_layer,
                           mode)
       IN /\ doc' = r.doc
          /\ net' = IF layer = "nodes" THEN [net EXCEPT !.nodes = r.els]
                    ELSE IF layer = "edges" THEN [net EXCEPT !.edges = r.els]
                    ELSE [net EXCEPT !.labels = r.els]
          /\ outcome' = r.status
    /\ lastOp' = "sort_" \o layer
    /\ UNCHANGED <<exported, ordinal>>
    /\ UNCHANGED <<binding, selection, calls, graph, args>>

SortNodes(mode)  == Sort("nodes", mode)
SortEdges(mode)  == Sort("edges", mode)
SortLabels(mode) == Sort("labels", mode)

LayerElements(layer) ==
    IF layer = "nodes" THEN net.nodes
    ELSE IF layer = "edges" THEN net.edges ELSE net.labels

Unbound == {el \in Range(net.nodes \o net.edges \o net.labels) : get_data(binding, el) = None}

\* net.<layer>.data(items): the caller binds the layer's data again, with
\* None in place of the k-th datum; the runs leave one element unbound at most
Rebind(layer, k) ==
    /\ net.status = "ok"
    /\ Unbound = {}
    /\ k \in 1..Len(LayerElements(layer))
    /\ LET els   == LayerElements(layer)
           items == [i \in 1..Len(els) |-> IF i = k THEN None ELSE get_data(binding, els[i])]
           r     == Selection_data(binding, els, items)
       IN /\ binding' = r.binding
          /\ outcome' = r.status
    /\ lastOp' = "data"
    /\ UNCHANGED <<exported, ordinal>>
    /\ UNCHANGED <<doc, selection, calls, graph, args, net>>

\* vertex weights 2, 1, unset, 1, ...; labels on every vertex but the first
SortGraph(v) ==
    [vcount |-> v, directed |-> FALSE,
     edges |-> [j \in 1..(v - 2) |-> <<j - 1, j>>],
     vattr |-> [n \in {"Position", "w", "label"} |->
                  IF n = "Position" THEN [i \in 1..v |-> Pair(i, i)]
                  ELSE IF n = "w"
                  THEN [i \in 1..v |-> IF i % 4 = 1 THEN Some(<<"num", 2>>)
                                       ELSE IF i % 4 = 3 THEN None
                                       ELSE Some(<<"num", 1>>)]
                  ELSE [i \in 1..v |-> IF i = 1 THEN None ELSE Some(<<"str", "A">>)]],
     eattr |-> [n \in {"w"} |-> [j \in 1..(v - 2) |-> Some(<<"num", (v - j) % 2>>)]]]

InitSort ==
    \E v \in 2..MaxSortV : InitNet(SortGraph(v), DefaultArgs)

NextSort ==
    \/ Construct
    \/ \E mode \in SortModes : SortNodes(mode) \/ SortEdges(mode) \/ SortLabels(mode)
    \/ \E layer \in {"nodes", "edges", "labels"}, k \in 1..MaxSortV : Rebind(layer, k)

SpecSort == InitSort /\ [][NextSort]_vars

(***************************************************************************)
(* Sorting: claims C4 and C5.                                              *)
(***************************************************************************)
SortOps == {"sort_nodes", "sort_edges", "sort_labels"}

SameElements(before, after) ==
    Len(after) = Len(before) /\ Range(after) = Range(before)

\* C4: a sort call, whatever its by, key, cmp and reverse, leaves in each
\* layer's selection exactly the elements it held (unbound ones included),
\* and leaves every element's bound datum and attributes as they were.
C4_SortPreserves ==
    [][lastOp' \in SortOps =>
          /\ SameElements(net.nodes, net'.nodes)
          /\ SameElements(net.edges, net'.edges)
          /\ SameElements(net.labels, net'.labels)
          /\ binding' = binding
          /\ doc'.attrOf = doc.attrOf
          /\ doc'.tagOf = doc.tagOf
          /\ doc'.textOf = doc.textOf]_vars

\* a sort has reordered the nodes, one of which has no bound datum
C4_Witness ==
    /\ lastOp = "sort_nodes" /\ outcome = "ok"
    /\ ~InBuildOrder(net.nodes)
    /\ \E i \in 1..Len(net.nodes) : get_data(binding, net.nodes[i]) = None

LayerParent(layer) ==
    IF layer = "nodes" THEN net.node_layer
    ELSE IF layer = "edges" THEN net.edge_layer ELSE net.label_layer

\* C5: sorting a layer twice in a row with the same by, key, cmp and reverse
\* gives the order that sorting it once gives.
C5_SortIdempotent ==
    net.status = "ok" =>
        \A layer \in {"nodes", "edges", "labels"}, mode \in SortModes :
            LET once  == sort_layer(graph, doc, binding, LayerElements(layer),
                                    LayerParent(layer), mode)
                twice == sort_layer(graph, once.doc, binding, once.els,
                                    LayerParent(layer), mode)
            IN twice.els = once.els

(***************************************************************************)
(* Sorting: claims C19 and C20.                                            *)
(***************************************************************************)
\* the layer a sort operation works on
SortedLayer(op) ==
    IF op = "sort_nodes" THEN "nodes" ELSE IF op = "sort_edges" THEN "edges" ELSE "labels"

\* the children of group among the elements els, in document order
ChildrenAmong(d, group, els) == SelectSeq(d.kids[group], LAMBDA c : c \in Range(els))

\* the groups of the tree that el is a child of
ParentsOf(d, el) == {q \in 1..Len(d.kids) : el \in Range(d.kids[q])}

\* C19: after sort_nodes, sort_edges or sort_labels returns, the sorted
\* elements stand among the children of their layer group in the order of
\* the layer's selection, and each of them is a child of that layer group
\* and of no other element.
C19_DocumentOrderIsSelectionOrder ==
    (lastOp \in SortOps /\ outcome = "ok") =>
        /\ ChildrenAmong(doc, LayerParent(SortedLayer(lastOp)), LayerElements(SortedLayer(lastOp)))
              = LayerElements(SortedLayer(lastOp))
        /\ \A k \in 1..Len(LayerElements(SortedLayer(lastOp))) :
              ParentsOf(doc, LayerElements(SortedLayer(lastOp))[k])
                 = {LayerParent(SortedLayer(lastOp))}

\* a sort of the edges changed their order, and the document follows it
C19_Witness ==
    /\ lastOp = "sort_edges" /\ outcome = "ok"
    /\ Len(net.edges) >= 2 /\ ~InBuildOrder(net.edges)
    /\ ChildrenAmong(doc, net.edge_layer, net.edges) = net.edges
    /\ doc.kids[net.edge_layer] = net.edges

\* the value element el has for the attribute name: None when no datum is
\* bound to it, when its graph object has no such attribute, or when the
\* attribute is unset
ElementValue(el, name) ==
    IF get_data(binding, el) = None THEN None
    ELSE LET datum == get_data(binding, el)[1]
             attrs == IF datum[1] = "vertex" THEN graph.vattr ELSE graph.eattr
         IN IF name \in DOMAIN attrs THEN attrs[name][datum[2] + 1] ELSE None

\* the sorts by a named attribute (set on some, or on no element) and by a
\* key function
MissingModes ==
    {mode \in SortModes : mode.kind \in {"by", "key"} /\ mode.name \in {"w", "zz", "KeyW"}}

\* the attribute a mode of MissingModes reads
ModeAttr(mode) == IF mode.kind = "key" THEN "w" ELSE mode.name

\* the order the claim requires of after, given the order before
MissingLast(before, after, name, reverse) ==
    /\ Len(after) = Len(before) /\ Range(after) = Range(before)
    /\ \A p, q \in 1..Len(after) : p < q =>
          LET a == ElementValue(after[p], name)
              b == ElementValue(after[q], name)
              was(el) == CHOOSE k \in 1..Len(before) : before[k] = el
          IN /\ (a = None /\ b # None) => reverse
             /\ (a # None /\ b = None) => ~reverse
             /\ (a # None /\ b # None) =>
                   IF reverse THEN a[1][2] >= b[1][2] ELSE a[1][2] <= b[1][2]
             /\ (a = b) => was(after[p]) < was(after[q])

\* the step sorts the layer with the mode
SortStep(layer, mode) ==
    LET r == sort_layer(graph, doc, binding, LayerElements(layer), LayerParent(layer), mode)
    IN /\ lastOp' = "sort_" \o layer
       /\ outcome' = r.status
       /\ doc' = r.doc
       /\ LayerElements(layer)' = r.els

\* the key function is handed a datum by every element
KeyDefined(layer, mode) ==
    mode.kind = "key" => \A k \in 1..Len(LayerElements(layer)) :
                            get_data(binding, LayerElements(layer)[k]) # None

\* C20: a sort by a named attribute or a key function never raises when
\* elements have no value: the elements without a value come after all the
\* elements with one (before them when reverse is set), the elements with a
\* value are ordered by it, and elements with equal keys keep their
\* previous relative order.
C20_MissingValuesSortLast ==
    [][\A layer \in {"nodes", "edges", "labels"}, mode \in MissingModes :
          (SortStep(layer, mode) /\ KeyDefined(layer, mode)) =>
              /\ outcome' = "ok"
              /\ MissingLast(LayerElements(layer), LayerElements(layer)',
                             ModeAttr(mode), mode.reverse)]_vars

\* a reverse sort by "w" put the node without a weight first, the node of
\* weight 2 next and the two nodes of weight 1 last, in their earlier order
C20_Witness ==
    /\ lastOp = "sort_nodes" /\ outcome = "ok" /\ Len(net.nodes) = 4
    /\ Unbound = {}
    /\ ElementValue(net.nodes[1], "w") = None
    /\ ElementValue(net.nodes[2], "w") = Some(<<"num", 2>>)
    /\ ElementValue(net.nodes[3], "w") = Some(<<"num", 1>>)
    /\ ElementValue(net.nodes[4], "w") = Some(<<"num", 1>>)
    /\ net.nodes[3] < net.nodes[4]

=============================================================================
